---- MODULE Spec2Model ----
(***************************************************************************)
(* A model of catholic-liturgy-tools: the retry decorator                  *)
(* (utils/retry.py), the USCCB scraper (scraper/usccb.py), the data models *)
(* it validates (scraper/models.py), the AI client and its cost tracker    *)
(* (ai/client.py, ai/cost_tracker.py) and the page generators              *)
(* (generator/message.py, generator/readings.py).                          *)
(*                                                                         *)
(* Conventions.  An optional Python value is a set: None is {} and a       *)
(* present value x is {x}.  A Python string is a sequence of atoms (TLA+   *)
(* strings that the patterns of the code never split); its length is the   *)
(* sum of the atoms' lengths.                                              *)
(***************************************************************************)
EXTENDS Integers, Sequences, FiniteSets, TLC

VARIABLES
    max_attempts,     \* retry_with_backoff(max_attempts=...)
    backoff_factor,   \* retry_with_backoff(backoff_factor=...)
    exceptions,       \* retry_with_backoff(exceptions=...): the retried classes
    wrapped,          \* which function the decorator wraps: "op" or "fetch_page"
    script,           \* what the outside world does at the i-th invocation
    attempt,          \* wrapper: loop variable of `for attempt in range(...)`
    last_exception,   \* wrapper: local last_exception
    delay,            \* wrapper: local delay, pending for time.sleep
    wpc,              \* wrapper: position
    result,           \* wrapper: how the wrapped call ended
    trace,            \* observable events, in order
    opc,              \* position of the scraper call in progress
    target_date,      \* get_readings_for_date(target_date)
    url,              \* local url
    page,             \* the document the server answers a successful GET with
    soup,             \* local soup (argument of the extractors)
    liturgical_day,   \* local liturgical_day
    readings,         \* local readings
    outcome,          \* how the scraper call ended
    self,             \* the object a method is called on, when the model needs it
    previous,         \* what an earlier call on the same scraper ended with
    cost_tracker,     \* AnthropicClient.cost_tracker: max_cost_usd and calls
    requests,         \* the API requests issued so far, in order
    max_retries,      \* generate_reflection(max_retries=...)
    cpc,              \* position of the client call in progress
    reflection_attempt, \* generate_reflection: loop variable `attempt`
    response,         \* local response of the client call in progress
    ai_result,        \* how the last client or tracker call ended
    files,            \* the file system: path (directory, name) -> content
    latest,           \* history, per generator: (directory, date) -> content last generated
    filepath          \* what the last generator call ended with

retryVars == <<max_attempts, backoff_factor, exceptions, wrapped, script,
               attempt, last_exception, delay, wpc, result, trace>>

scraperVars == <<opc, target_date, url, page, soup, liturgical_day, readings, outcome,
                 self, previous>>

appVars == <<cost_tracker, requests, max_retries, cpc, reflection_attempt,
             response, ai_result, files, latest, filepath>>

vars == <<retryVars, scraperVars, appVars>>

----------------------------------------------------------------------------
(* Bounds of the model *)

MaxAttempts == 3
MaxFactor == 3
MaxTitleAtoms == 4
MaxHeadings == 2
MaxElements == 4
MaxParagraphs == 3
MaxReadings == 3
MaxCalls == 4         \* recorded calls of one tracker, API requests of one client
MaxRetries == 3       \* largest max_retries of generate_reflection

----------------------------------------------------------------------------
(* Optional values *)

None == {}
Some(x) == {x}
The(s) == CHOOSE x \in s : TRUE

----------------------------------------------------------------------------
(* Exception classes: the class of each exception type the model raises    *)
(* and its base class.                                                     *)

Parent(cls) ==
    CASE cls = "LiturgyToolsError" -> "Exception"
      [] cls = "ScraperError" -> "LiturgyToolsError"
      [] cls = "NetworkError" -> "ScraperError"
      [] cls = "ParseError" -> "ScraperError"
      [] cls = "ValidationError" -> "ScraperError"
      [] cls = "RequestException" -> "Exception"
      [] cls = "Timeout" -> "RequestException"
      [] cls = "ConnectionError" -> "RequestException"
      [] cls = "HTTPError" -> "RequestException"
      [] cls = "ValueError" -> "Exception"
      [] cls = "TypeError" -> "Exception"
      [] cls = "CustomError" -> "Exception"
      [] cls = "AnotherError" -> "Exception"
      [] OTHER -> "BaseException"

RECURSIVE IsSubclass(_, _)
IsSubclass(cls, base) ==
    IF cls = base THEN TRUE
    ELSE IF cls = "BaseException" THEN FALSE
    ELSE IsSubclass(Parent(cls), base)

CatchesAll(classes, cls) == TRUE

\* `except classes as e`: does the clause catch an exception of type cls?
Catches(classes, cls) == \E c \in classes : IsSubclass(cls, c)

----------------------------------------------------------------------------
(* The wrapped operation of the generic wrapper: a scripted callable, as   *)
(* the Mock(side_effect=[...]) of the unit tests.  Its i-th invocation     *)
(* returns a value of its own or raises an exception object of its own.    *)

Returned(v) == [kind |-> "return", value |-> v]
Raised(e) == [kind |-> "raise", exc |-> e]

OpOutcomes == {[kind |-> "return"]} \cup
              {[kind |-> "raise", type |-> t] : t \in {"CustomError", "AnotherError"}}

Op(i) ==
    IF script[i].kind = "return"
    THEN Returned([val |-> i])
    ELSE Raised([type |-> script[i].type, id |-> i])


----------------------------------------------------------------------------
(* Text.  A string is a sequence of atoms; the atoms are chosen so that no *)
(* pattern or keyword of the code matches across an atom boundary.         *)

\* The characters str.strip() and the regex \s take for whitespace
Whitespace == {" ", "\n", "\t"}

RECURSIVE StrLen(_)
\* len(s)
StrLen(s) == IF s = <<>> THEN 0 ELSE Len(Head(s)) + StrLen(Tail(s))

RECURSIVE LStrip(_)
LStrip(s) == IF s # <<>> /\ Head(s) \in Whitespace THEN LStrip(Tail(s)) ELSE s

RECURSIVE RStrip(_)
RStrip(s) ==
    IF s # <<>> /\ s[Len(s)] \in Whitespace THEN RStrip(SubSeq(s, 1, Len(s) - 1)) ELSE s

\* s.strip()
Strip(s) == RStrip(LStrip(s))

\* `not s or not s.strip()`
IsBlank(s) == Strip(s) = <<>> \/ StrLen(Strip(s)) = 0

\* str.lower() of an atom
Lower(a) ==
    CASE a = "Daily Readings" -> "daily readings"
      [] a = "USCCB" -> "usccb"
      [] a = "Mass" -> "mass"
      [] a = "Advent" -> "advent"
      [] a = "Advent Day" -> "advent day"
      [] a = "EASTER Week" -> "easter week"
      [] a = "Saint Cecilia" -> "saint cecilia"
      [] a = "Gospel" -> "gospel"
      [] a = "Reading 1" -> "reading 1"
      [] a = "Responsorial Psalm" -> "responsorial psalm"
      [] a = "Alleluia" -> "alleluia"
      [] a = "About Us" -> "about us"
      [] a = "Amen." -> "amen."
      [] a = "View Reflection" -> "view reflection"
      [] a = "View reflection" -> "view reflection"
      [] a = "Listen to the podcast" -> "listen to the podcast"
      [] a = "Thanks be to God now" -> "thanks be to god now"
      [] a = "Thanks be to God now." -> "thanks be to god now."
      [] a = "LISTEN PODCAST of the day" -> "listen podcast of the day"
      [] a = "In the beginning was the Word." -> "in the beginning was the word."
      [] a = "And the Word was made flesh." -> "and the word was made flesh."
      [] a = "Heading" -> "heading"
      [] a = "Vigil" -> "vigil"
      [] a = "Dawn" -> "dawn"
      [] a = "DAY" -> "day"
      [] a = "Evening" -> "evening"
      [] OTHER -> a

\* <<a, k>>: k occurs in the lower-case atom a (Python's `k in a`)
Occurs ==
    { <<"advent", "advent">>, <<"advent day", "advent">>, <<"advent day", "day">>,
      <<"easter week", "easter">>, <<"easter week", "week">>,
      <<"daily readings", "reading">>, <<"reading 1", "reading">>,
      <<"gospel", "gospel">>, <<"responsorial psalm", "psalm">>,
      <<"alleluia", "alleluia">>,
      <<"view reflection", "view reflection">>,
      <<"listen podcast of the day", "listen podcast">>,
      <<"listen podcast of the day", "day">>,
      <<"page-title", "title">>, <<"heading", "heading">> }

\* any(keyword in text.lower() for keyword in keywords)
ContainsAny(text, keywords) ==
    \E i \in 1..Len(text) : \E k \in keywords : <<Lower(text[i]), k>> \in Occurs

----------------------------------------------------------------------------
(* The parsed document (BeautifulSoup).  title is the string of the <title>*)
(* tag, None when the tag is absent or has no single string.  body is the  *)
(* sequence of sibling elements in document order: headings, and the       *)
(* div.content-header / div.content-body pairs of the USCCB page.          *)

Heading(tag, class, text) == [el |-> "heading", tag |-> tag, class |-> class, text |-> text]

\* div.content-header holding h3.name and, when present, div.address, which
\* holds, when present, the citation anchor (href under /bible/) with its text
ContentHeader(title, address) ==
    [el |-> "content-header", title |-> title, address |-> address]

ContentBody(paragraphs) == [el |-> "content-body", paragraphs |-> paragraphs]

Soup(title, body, anchors) == [title |-> title, body |-> body, anchors |-> anchors]

\* The heading element an element is, or holds
HeadingOf(e) ==
    IF e.el = "content-header" THEN Heading("h3", "name", e.title) ELSE e

\* All h1-h3 elements of the document, in document order
Headings(doc) ==
    LET hs == SelectSeq(doc.body, LAMBDA e : e.el \in {"heading", "content-header"})
    IN  [i \in 1..Len(hs) |-> HeadingOf(hs[i])]

----------------------------------------------------------------------------
(* USCCBReadingsScraper._extract_liturgical_day *)

RECURSIVE SkipSpaces(_, _)
\* the index after the run of whitespace that begins at i (regex \s*)
SkipSpaces(s, i) ==
    IF i <= Len(s) /\ s[i] \in Whitespace THEN SkipSpaces(s, i + 1) ELSE i

AtomAt(s, i, a) == i <= Len(s) /\ s[i] = a

\* The least index of a set of indices, 0 when there is none
First(S) == IF S = {} THEN 0 ELSE CHOOSE i \in S : \A j \in S : i <= j

\* re.sub(r'\s*-\s*Daily Readings.*$', '', s)
RemoveDailyReadingsSuffix(s) ==
    LET M(i) == LET j == SkipSpaces(s, i)
                IN  /\ AtomAt(s, j, "-")
                    /\ AtomAt(s, SkipSpaces(s, j + 1), "Daily Readings")
        at == First({i \in 1..Len(s) : M(i)})
    IN  IF at = 0 THEN s ELSE SubSeq(s, 1, at - 1)

\* re.sub(r'\s*<sep>\s*USCCB\s*$', '', s) for the separator | or -
RemoveSiteSuffix(s, sep) ==
    LET M(i) == LET j == SkipSpaces(s, i)
                    k == SkipSpaces(s, j + 1)
                IN  /\ AtomAt(s, j, sep)
                    /\ AtomAt(s, k, "USCCB")
                    /\ SkipSpaces(s, k + 1) = Len(s) + 1
        at == First({i \in 1..Len(s) : M(i)})
    IN  IF at = 0 THEN s ELSE SubSeq(s, 1, at - 1)

\* re.sub(r'^Daily Readings\s*-\s*', '', s)
RemoveDailyReadingsPrefix(s) ==
    LET j == SkipSpaces(s, 2)
    IN  IF AtomAt(s, 1, "Daily Readings") /\ AtomAt(s, j, "-")
        THEN SubSeq(s, SkipSpaces(s, j + 1), Len(s))
        ELSE s

\* The four substitutions, in the order of the code
CleanTitle(s) ==
    RemoveDailyReadingsPrefix(
        RemoveSiteSuffix(RemoveSiteSuffix(RemoveDailyReadingsSuffix(s), "|"), "-"))

TitleMinLen == 10

\* `len(title_text) > 10`
TitleLongEnough(t) == StrLen(t) > TitleMinLen

\* Strategy 1: the title tag
TitleStrategy(doc) ==
    IF doc.title # None /\ StrLen(The(doc.title)) > 0
    THEN LET title_text == CleanTitle(Strip(The(doc.title)))
         IN  IF title_text # <<>> /\ TitleLongEnough(title_text)
             THEN Some(Strip(title_text))
             ELSE None
    ELSE None

ClassHints == {"liturgical", "day", "title", "heading"}

\* class_=re.compile(r"(liturgical|day|title|heading)", re.I)
HasClassHint(h) == ContainsAny(<<h.class>>, ClassHints)

RECURSIVE ClassHintFrom(_, _)
\* Strategy 2 over the remaining tag names: the first class-hinted heading of
\* each tag name is the only one of that tag name looked at
ClassHintFrom(doc, tags) ==
    IF tags = <<>> THEN None
    ELSE LET hs == SelectSeq(Headings(doc),
                             LAMBDA h : h.tag = Head(tags) /\ HasClassHint(h))
         IN  IF /\ hs # <<>>
                /\ StrLen(hs[1].text) > 0
                /\ StrLen(hs[1].text) > 5
                /\ hs[1].text # <<"Daily Readings">>
             THEN Some(hs[1].text)
             ELSE ClassHintFrom(doc, Tail(tags))

ClassHintStrategy(doc) == ClassHintFrom(doc, <<"h2", "h3", "h1">>)

DayKeywords == {"sunday", "week", "memorial", "feast", "solemnity",
                "ordinary time", "advent", "lent", "easter"}

RECURSIVE KeywordFrom(_, _)
\* Strategy 3 over the remaining tag names
KeywordFrom(doc, tags) ==
    IF tags = <<>> THEN None
    ELSE LET hs == SelectSeq(Headings(doc),
                             LAMBDA h : /\ h.tag = Head(tags)
                                        /\ ContainsAny(h.text, DayKeywords)
                                        /\ StrLen(h.text) > 10)
         IN  IF hs # <<>> THEN Some(hs[1].text) ELSE KeywordFrom(doc, Tail(tags))

KeywordStrategy(doc) == KeywordFrom(doc, <<"h2", "h3">>)

ParseError(element) == [type |-> "ParseError", element |-> element]

ExtractLiturgicalDayEmptyFallback(doc) ==
    IF TitleStrategy(doc) # None THEN Returned(The(TitleStrategy(doc)))
    ELSE IF ClassHintStrategy(doc) # None THEN Returned(The(ClassHintStrategy(doc)))
    ELSE IF KeywordStrategy(doc) # None THEN Returned(The(KeywordStrategy(doc)))
    ELSE Returned(<<>>)

ExtractLiturgicalDayKeywordFirst(doc) ==
    IF KeywordStrategy(doc) # None THEN Returned(The(KeywordStrategy(doc)))
    ELSE IF TitleStrategy(doc) # None THEN Returned(The(TitleStrategy(doc)))
    ELSE IF ClassHintStrategy(doc) # None THEN Returned(The(ClassHintStrategy(doc)))
    ELSE Raised(ParseError("liturgical_day"))

\* _extract_liturgical_day(soup): the day's name, or the ParseError raised
ExtractLiturgicalDay(doc) ==
    IF TitleStrategy(doc) # None THEN Returned(The(TitleStrategy(doc)))
    ELSE IF ClassHintStrategy(doc) # None THEN Returned(The(ClassHintStrategy(doc)))
    ELSE IF KeywordStrategy(doc) # None THEN Returned(The(KeywordStrategy(doc)))
    ELSE Raised(ParseError("liturgical_day"))

----------------------------------------------------------------------------
(* USCCBReadingsScraper._extract_readings *)

ReadingKeywords == {"reading", "gospel", "psalm", "alleluia"}

NavigationPhrases == {"listen podcast", "view reflection", "en español",
                      "view calendar", "get daily readings"}

ParagraphMinLen == 20

ReadingEntry(title, citation, text) ==
    [title |-> title, citation |-> citation, text |-> text]

\* soup.find_all("h3", class_="name"): is the i-th element such a heading?
IsNameHeading(doc, i) ==
    /\ doc.body[i].el \in {"heading", "content-header"}
    /\ HeadingOf(doc.body[i]).tag = "h3"
    /\ HeadingOf(doc.body[i]).class = "name"

\* heading.find_parent("div", class_="content-header")
ContentHeaderOf(doc, i) ==
    IF doc.body[i].el = "content-header" THEN Some(doc.body[i]) ELSE None

\* content_header.find_next_sibling("div", class_="content-body")
FindContentBody(doc, i) ==
    LET js == {j \in (i + 1)..Len(doc.body) : doc.body[j].el = "content-body"}
    IN  IF js = {} THEN None ELSE Some(doc.body[First(js)])

KeepParagraphFromMinLen(p) ==
    /\ StrLen(p) > 0
    /\ StrLen(p) >= ParagraphMinLen
    /\ ~ContainsAny(p, NavigationPhrases)

\* The paragraph filter of the code
KeepParagraphUnfiltered(p) == TRUE

KeepParagraph(p) ==
    /\ StrLen(p) > 0
    /\ StrLen(p) > ParagraphMinLen
    /\ ~ContainsAny(p, NavigationPhrases)

\* What the loop body appends for the i-th element: <<entry>> or nothing
ReadingAt(doc, i) ==
    IF ~IsNameHeading(doc, i) THEN <<>>
    ELSE LET title == HeadingOf(doc.body[i]).text
             content_header == ContentHeaderOf(doc, i)
         IN  IF ~ContainsAny(title, ReadingKeywords) THEN <<>>
             ELSE IF content_header = None THEN <<>>
             ELSE IF The(content_header).address = None THEN <<>>
             ELSE IF The(The(content_header).address).link = None THEN <<>>
             ELSE LET citation == The(The(The(content_header).address).link)
                      content_body == FindContentBody(doc, i)
                  IN  IF content_body = None THEN <<>>
                      ELSE LET text_paragraphs ==
                                   SelectSeq(The(content_body).paragraphs, KeepParagraph)
                           IN  IF text_paragraphs # <<>>
                               THEN <<ReadingEntry(title, citation, text_paragraphs)>>
                               ELSE <<>>

RECURSIVE ReadingsFrom(_, _)
\* The list the loop builds from the i-th element on
ReadingsFrom(doc, i) ==
    IF i > Len(doc.body) THEN <<>>
    ELSE ReadingAt(doc, i) \o ReadingsFrom(doc, i + 1)

RECURSIVE AnyNameHeadingWithoutLink(_, _)
AnyNameHeadingWithoutLink(doc, i) ==
    IF i > Len(doc.body) THEN FALSE
    ELSE \/ /\ IsNameHeading(doc, i)
            /\ ContainsAny(HeadingOf(doc.body[i]).text, ReadingKeywords)
            /\ \/ ContentHeaderOf(doc, i) = None
               \/ doc.body[i].address = None
               \/ The(doc.body[i].address).link = None
         \/ AnyNameHeadingWithoutLink(doc, i + 1)

ExtractReadingsStrict(doc) ==
    IF ReadingsFrom(doc, 1) = <<>> \/ AnyNameHeadingWithoutLink(doc, 1)
    THEN Raised(ParseError("readings"))
    ELSE Returned(ReadingsFrom(doc, 1))

ExtractReadingsAtLeastTwo(doc) ==
    IF Len(ReadingsFrom(doc, 1)) < 2
    THEN Raised(ParseError("readings"))
    ELSE Returned(ReadingsFrom(doc, 1))

\* _extract_readings(soup): the entries, or the ParseError raised
ExtractReadings(doc) ==
    IF ReadingsFrom(doc, 1) = <<>>
    THEN Raised(ParseError("readings"))
    ELSE Returned(ReadingsFrom(doc, 1))

----------------------------------------------------------------------------
(* scraper/models.py: ReadingEntry.validate and DailyReading.validate *)

ValidationError(field, value) ==
    [type |-> "ValidationError", field |-> field, value |-> value]

ValidateReadingEntryEmptyOnly(r) ==
    IF r.title = <<>> THEN Some(ValidationError("title", r.title))
    ELSE IF r.citation = <<>> THEN Some(ValidationError("citation", r.citation))
    ELSE IF r.text = <<>> THEN Some(ValidationError("text", r.text))
    ELSE None

\* ReadingEntry.validate: the ValidationError raised, None when it passes
ValidateReadingEntry(r) ==
    IF IsBlank(r.title) THEN Some(ValidationError("title", r.title))
    ELSE IF IsBlank(r.citation) THEN Some(ValidationError("citation", r.citation))
    ELSE IF r.text = <<>> \/ \A i \in 1..Len(r.text) : IsBlank(r.text[i])
    THEN Some(ValidationError("text", r.text))
    ELSE None

DailyReading(date, date_display, day, entries, source_url) ==
    [date |-> date, date_display |-> date_display, liturgical_day |-> day,
     readings |-> entries, source_url |-> source_url]

NoDate == [year |-> 0, month |-> 0, day |-> 0]

\* isinstance(self.date, date)
IsDate(d) == d # NoDate

ValidateDailyReadingLastInvalid(dr) ==
    LET bad == {i \in 1..Len(dr.readings) : ValidateReadingEntry(dr.readings[i]) # None}
    IN  IF ~IsDate(dr.date) THEN Some(ValidationError("date", dr.date))
        ELSE IF IsBlank(dr.date_display)
        THEN Some(ValidationError("date_display", dr.date_display))
        ELSE IF IsBlank(dr.liturgical_day)
        THEN Some(ValidationError("liturgical_day", dr.liturgical_day))
        ELSE IF dr.readings = <<>> THEN Some(ValidationError("readings", dr.readings))
        ELSE IF bad # {}
        THEN LET last == CHOOSE i \in bad : \A j \in bad : j <= i
                 e == The(ValidateReadingEntry(dr.readings[last]))
             IN  Some(ValidationError(
                     "readings[" \o ToString(last - 1) \o "]." \o e.field, e.value))
        ELSE IF IsBlank(dr.source_url)
        THEN Some(ValidationError("source_url", dr.source_url))
        ELSE None

ValidateDailyReadingWithoutSourceUrl(dr) ==
    LET bad == {i \in 1..Len(dr.readings) : ValidateReadingEntry(dr.readings[i]) # None}
    IN  IF ~IsDate(dr.date) THEN Some(ValidationError("date", dr.date))
        ELSE IF IsBlank(dr.date_display)
        THEN Some(ValidationError("date_display", dr.date_display))
        ELSE IF IsBlank(dr.liturgical_day)
        THEN Some(ValidationError("liturgical_day", dr.liturgical_day))
        ELSE IF dr.readings = <<>> THEN Some(ValidationError("readings", dr.readings))
        ELSE IF bad # {}
        THEN LET e == The(ValidateReadingEntry(dr.readings[First(bad)]))
             IN  Some(ValidationError(
                     "readings[" \o ToString(First(bad) - 1) \o "]." \o e.field, e.value))
        ELSE None

ValidateDailyReadingSkippingEntries(dr) ==
    IF ~IsDate(dr.date) THEN Some(ValidationError("date", dr.date))
    ELSE IF IsBlank(dr.date_display)
    THEN Some(ValidationError("date_display", dr.date_display))
    ELSE IF IsBlank(dr.liturgical_day)
    THEN Some(ValidationError("liturgical_day", dr.liturgical_day))
    ELSE IF dr.readings = <<>> THEN Some(ValidationError("readings", dr.readings))
    ELSE IF IsBlank(dr.source_url)
    THEN Some(ValidationError("source_url", dr.source_url))
    ELSE None

\* DailyReading.validate: the ValidationError raised, None when it passes
ValidateDailyReading(dr) ==
    LET bad == {i \in 1..Len(dr.readings) : ValidateReadingEntry(dr.readings[i]) # None}
    IN  IF ~IsDate(dr.date) THEN Some(ValidationError("date", dr.date))
        ELSE IF IsBlank(dr.date_display)
        THEN Some(ValidationError("date_display", dr.date_display))
        ELSE IF IsBlank(dr.liturgical_day)
        THEN Some(ValidationError("liturgical_day", dr.liturgical_day))
        ELSE IF dr.readings = <<>> THEN Some(ValidationError("readings", dr.readings))
        ELSE IF Len(dr.readings) < 1
        THEN Some(ValidationError("readings", Len(dr.readings)))
        ELSE IF bad # {}
        THEN LET e == The(ValidateReadingEntry(dr.readings[First(bad)]))
             IN  Some(ValidationError(
                     "readings[" \o ToString(First(bad) - 1) \o "]." \o e.field, e.value))
        ELSE IF IsBlank(dr.source_url)
        THEN Some(ValidationError("source_url", dr.source_url))
        ELSE None

----------------------------------------------------------------------------
(* USCCBReadingsScraper: _build_url, _fetch_page, _check_for_multiple_masses *)

BaseUrl == "https://bible.usccb.org/bible/readings"

Pad2Unpadded(n) == ToString(n)

\* %m, %d, %y: two digits, zero-padded
Pad2(n) == IF n < 10 THEN "0" \o ToString(n) ELSE ToString(n)

\* target_date.strftime("%m%d%y")
DateStr(d) == Pad2(d.month) \o Pad2(d.day) \o Pad2(d.year % 100)

\* f"{self.base_url}/{date_str}.cfm"
UrlOf(base, d) == base \o "/" \o DateStr(d) \o ".cfm"

\* _build_url(target_date) of a scraper with the default base_url
BuildUrl(d) == UrlOf(BaseUrl, d)

WeekdayNames == <<"Saturday", "Sunday", "Monday", "Tuesday", "Wednesday",
                  "Thursday", "Friday">>

MonthNames == <<"January", "February", "March", "April", "May", "June", "July",
                "August", "September", "October", "November", "December">>

\* %A: the day of the week of a Gregorian date (Zeller's congruence)
Weekday(d) ==
    LET m == IF d.month < 3 THEN d.month + 12 ELSE d.month
        y == IF d.month < 3 THEN d.year - 1 ELSE d.year
        h == (d.day + ((13 * (m + 1)) \div 5) + (y % 100) + ((y % 100) \div 4)
              + ((y \div 100) \div 4) + 5 * (y \div 100)) % 7
    IN  WeekdayNames[h + 1]

\* target_date.strftime("%A, %B %d, %Y")
DateDisplay(d) ==
    <<Weekday(d), ",", " ", MonthNames[d.month], " ", Pad2(d.day), ",", " ",
      ToString(d.year)>>

NetworkError(u, status_code, i) ==
    [type |-> "NetworkError", url |-> u, status_code |-> status_code, id |-> i]

\* response.raise_for_status() raises HTTPError for a 4xx or 5xx status
RaisesForStatus(status) == 400 <= status /\ status < 600

\* The try block of _fetch_page, given what the transport does with the GET
FetchTry(t, pg) ==
    IF t.kind = "raise" THEN Raised([type |-> t.type, response |-> None])
    ELSE IF RaisesForStatus(t.status)
    THEN Raised([type |-> "HTTPError", response |-> Some(t.status)])
    ELSE Returned(pg)

\* The truth value of a requests.Response is Response.ok: no error status
ResponseBool(status) == ~RaisesForStatus(status)

\* `e.response.status_code if e.response else None`
StatusCodeOf(e) ==
    IF e.response # None /\ ResponseBool(The(e.response)) THEN e.response ELSE None

FetchHandlersWithoutCatchAll ==
    <<"Timeout", "ConnectionError", "HTTPError", "RequestException">>

\* The except clauses of _fetch_page, in order
FetchHandlers ==
    <<"Timeout", "ConnectionError", "HTTPError", "RequestException", "Exception">>

\* The body of _fetch_page at its i-th invocation
FetchPage(u, t, pg, i) ==
    LET r == FetchTry(t, pg)
    IN  IF r.kind = "return" THEN r
        ELSE LET h == First({k \in 1..Len(FetchHandlers) :
                                IsSubclass(r.exc.type, FetchHandlers[k])})
             IN  IF h = 0 THEN r
                 ELSE IF FetchHandlers[h] = "HTTPError"
                 THEN Raised(NetworkError(u, StatusCodeOf(r.exc), i))
                 ELSE Raised(NetworkError(u, None, i))

FetchMaxAttempts == 3
FetchBackoffFactor == 2

FetchRetriesRequestExceptions == {"RequestException"}

\* The decorator's default exceptions=(Exception,)
FetchRetryExceptions == {"Exception"}

MassSuffixes == {"vigil", "night", "dawn", "day"}

\* An anchor whose href is <stem>-<suffix>.cfm, with its text
Anchor(stem, suffix, text) == [stem |-> stem, suffix |-> suffix, text |-> text]

CheckForMultipleMassesAnyDate(doc, date_str) ==
    LET mass_links == SelectSeq(doc.anchors, LAMBDA a : Lower(a.suffix) \in MassSuffixes)
    IN  IF mass_links # <<>>
        THEN Some([i \in 1..Len(mass_links) |-> mass_links[i].text])
        ELSE None

\* _check_for_multiple_masses(soup, date_str): the warning, or None
CheckForMultipleMasses(doc, date_str) ==
    LET mass_links == SelectSeq(doc.anchors,
                                LAMBDA a : a.stem = date_str /\ Lower(a.suffix) \in MassSuffixes)
    IN  IF mass_links # <<>>
        THEN Some([i \in 1..Len(mass_links) |-> mass_links[i].text])
        ELSE None

----------------------------------------------------------------------------
(* retry_with_backoff.wrapper *)

Event(ev, arg) == [ev |-> ev, arg |-> arg]

\* func(*args, **kwargs) at its i-th invocation
Func(i) ==
    IF wrapped = "fetch_page" THEN FetchPage(url, script[i], page, i) ELSE Op(i)

\* What the wrapped function does to the outside world when invoked
FuncEvents(i) ==
    IF wrapped = "fetch_page" THEN <<Event("get", url)>> ELSE <<>>

RECURSIVE Pow(_, _)
Pow(b, n) == IF n = 0 THEN 1 ELSE b * Pow(b, n - 1)

\* The number of invocations of the wrapped function so far
Calls(t) == Cardinality({i \in 1..Len(t) : t[i].ev = "call"})

BackoffDelayFromOne(factor, n) == Pow(factor, n)

BackoffDelayLinear(factor, n) == factor * n

\* The body `backoff_factor ** (attempt - 1)`
BackoffDelay(factor, n) == Pow(factor, n - 1)

MoreAttemptsInclusive(n, limit) == n <= limit

MoreAttemptsAlways(n, limit) == TRUE

\* `if attempt < max_attempts` of the except clause
MoreAttempts(n, limit) == n < limit

WrapperAttemptLoggingEverySuccess ==
    /\ wpc = "loop"
    /\ attempt <= max_attempts
    /\ LET n == Calls(trace) + 1
           r == Func(n)
           called == Append(trace, Event("call", n)) \o FuncEvents(n)
       IN  IF r.kind = "return"
           THEN /\ result' = r
                /\ wpc' = "returned"
                /\ trace' = IF attempt >= 1
                            THEN Append(called, Event("info", attempt))
                            ELSE called
                /\ UNCHANGED <<attempt, last_exception, delay>>
           ELSE IF Catches(exceptions, r.exc.type)
           THEN /\ last_exception' = Some(r.exc)
                /\ IF MoreAttempts(attempt, max_attempts)
                   THEN /\ delay' = BackoffDelay(backoff_factor, attempt)
                        /\ trace' = Append(called, Event("warning", attempt))
                        /\ wpc' = "sleep"
                        /\ UNCHANGED attempt
                   ELSE /\ trace' = Append(called, Event("error", attempt))
                        /\ attempt' = attempt + 1
                        /\ UNCHANGED <<delay, wpc>>
                /\ UNCHANGED result
           ELSE /\ result' = r
                /\ wpc' = "raised"
                /\ trace' = called
                /\ UNCHANGED <<attempt, last_exception, delay>>
    /\ UNCHANGED <<max_attempts, backoff_factor, exceptions, wrapped, script>>
    /\ UNCHANGED scraperVars
    /\ UNCHANGED appVars

\* One iteration of the for loop up to, and not including, time.sleep
WrapperAttempt ==
    /\ wpc = "loop"
    /\ attempt <= max_attempts
    /\ LET n == Calls(trace) + 1
           r == Func(n)
           called == Append(trace, Event("call", n)) \o FuncEvents(n)
       IN  IF r.kind = "return"
           THEN /\ result' = r
                /\ wpc' = "returned"
                /\ trace' = IF attempt > 1
                            THEN Append(called, Event("info", attempt))
                            ELSE called
                /\ UNCHANGED <<attempt, last_exception, delay>>
           ELSE IF Catches(exceptions, r.exc.type)
           THEN /\ last_exception' = Some(r.exc)
                /\ IF MoreAttempts(attempt, max_attempts)
                   THEN /\ delay' = BackoffDelay(backoff_factor, attempt)
                        /\ trace' = Append(called, Event("warning", attempt))
                        /\ wpc' = "sleep"
                        /\ UNCHANGED attempt
                   ELSE /\ trace' = Append(called, Event("error", attempt))
                        /\ attempt' = attempt + 1
                        /\ UNCHANGED <<delay, wpc>>
                /\ UNCHANGED result
           ELSE /\ result' = r
                /\ wpc' = "raised"
                /\ trace' = called
                /\ UNCHANGED <<attempt, last_exception, delay>>
    /\ UNCHANGED <<max_attempts, backoff_factor, exceptions, wrapped, script>>
    /\ UNCHANGED scraperVars
    /\ UNCHANGED appVars

\* time.sleep(delay), then the next iteration
WrapperSleep ==
    /\ wpc = "sleep"
    /\ trace' = Append(trace, Event("sleep", delay))
    /\ attempt' = attempt + 1
    /\ wpc' = "loop"
    /\ UNCHANGED <<max_attempts, backoff_factor, exceptions, wrapped, script,
                   last_exception, delay, result>>
    /\ UNCHANGED scraperVars
    /\ UNCHANGED appVars

\* `raise last_exception` after the loop; raising None is a TypeError
WrapperRaise ==
    /\ wpc = "loop"
    /\ attempt > max_attempts
    /\ result' = IF last_exception = None
                 THEN Raised([type |-> "TypeError", id |-> 0])
                 ELSE Raised(The(last_exception))
    /\ wpc' = "raised"
    /\ UNCHANGED <<max_attempts, backoff_factor, exceptions, wrapped, script,
                   attempt, last_exception, delay, trace>>
    /\ UNCHANGED scraperVars
    /\ UNCHANGED appVars

Pending == [kind |-> "pending"]

\* The locals of wrapper as a call begins
WrapperEntry ==
    /\ attempt = 1
    /\ last_exception = None
    /\ delay = 0
    /\ result = Pending
    /\ trace = <<>>

ScriptLen == MaxAttempts

\* A fresh tracker with the default limit, and no client call in progress
AIUnused ==
    /\ cost_tracker = [max_cost_usd |-> 40000, calls |-> <<>>]
    /\ requests = <<>>
    /\ max_retries = 3
    /\ cpc = "none"
    /\ reflection_attempt = 0
    /\ response = None
    /\ ai_result = Pending

\* An empty output tree, and no generator called
SiteUnused ==
    /\ files = <<>>
    /\ latest = [message |-> <<>>, readings |-> <<>>]
    /\ filepath = Pending

\* No scraper call is in progress
ScraperUnused ==
    /\ opc = "none"
    /\ target_date = NoDate
    /\ url = ""
    /\ page = Soup(None, <<>>, <<>>)
    /\ soup = None
    /\ liturgical_day = None
    /\ readings = None
    /\ outcome = Pending
    /\ self = None
    /\ previous = None

\* No decorated call is in progress
WrapperUnused ==
    /\ max_attempts = 0
    /\ backoff_factor = 1
    /\ exceptions = {}
    /\ wrapped = "none"
    /\ script = <<>>
    /\ wpc = "idle"
    /\ WrapperEntry

ExceptionSets == {{"CustomError"}, {"CustomError", "AnotherError"}, {"Exception"}}

InitRetry ==
    /\ max_attempts \in (0 - 1)..MaxAttempts
    /\ backoff_factor \in 1..MaxFactor
    /\ exceptions \in ExceptionSets
    /\ wrapped = "op"
    /\ script \in [1..ScriptLen -> OpOutcomes]
    /\ wpc = "loop"
    /\ WrapperEntry
    /\ ScraperUnused
    /\ AIUnused
    /\ SiteUnused

NextRetry ==
    \/ WrapperAttempt
    \/ WrapperSleep
    \/ WrapperRaise

SpecRetry == InitRetry /\ [][NextRetry]_vars

\* The thread runs on: a wrapper that can take a step takes it
SpecRetryFair == SpecRetry /\ WF_vars(NextRetry)

----------------------------------------------------------------------------
(* One call of _extract_liturgical_day on a document *)

TitleAtoms == {" ", "-", "|", "Daily Readings", "USCCB", "Mass", "Saint Cecilia"}

HeadingTexts == { <<>>, <<"Daily Readings">>, <<"USCCB">>, <<"Advent">>,
                  <<"Advent Day">>, <<"EASTER Week">>, <<"Saint Cecilia">> }

HeadingKinds ==
    {Heading(tag, class, text) :
        tag \in {"h1", "h2", "h3"}, class \in {"", "page-title"}, text \in HeadingTexts}

FewTitles == { None, Some(<<"Mass">>) }

FewBodies == { <<>>,
               <<Heading("h2", "", <<"EASTER Week">>)>>,
               <<Heading("h1", "page-title", <<"Advent">>),
                 Heading("h3", "", <<"Saint Cecilia">>)>> }

\* Every title of at most MaxTitleAtoms atoms over a few bodies, and every
\* body of at most MaxHeadings headings under a few titles
DayDoc(d) ==
    \/ \E b \in FewBodies :
          \/ d = Soup(None, b, <<>>)
          \/ \E n \in 0..MaxTitleAtoms : \E t \in [1..n -> TitleAtoms] :
                d = Soup(Some(t), b, <<>>)
    \/ \E t \in FewTitles : \E n \in 1..MaxHeadings : \E b \in [1..n -> HeadingKinds] :
          d = Soup(t, b, <<>>)

InitDay ==
    /\ WrapperUnused
    /\ opc = "extract_liturgical_day"
    /\ target_date = NoDate
    /\ url = ""
    /\ DayDoc(page)
    /\ soup = Some(page)
    /\ liturgical_day = None
    /\ readings = None
    /\ outcome = Pending
    /\ self = None
    /\ previous = None
    /\ AIUnused
    /\ SiteUnused

CallExtractLiturgicalDay ==
    /\ opc = "extract_liturgical_day"
    /\ outcome' = ExtractLiturgicalDay(The(soup))
    /\ opc' = "done"
    /\ UNCHANGED <<target_date, url, page, soup, liturgical_day, readings, self, previous>>
    /\ UNCHANGED retryVars
    /\ UNCHANGED appVars

NextDay == CallExtractLiturgicalDay

SpecDay == InitDay /\ [][NextDay]_vars

----------------------------------------------------------------------------
(* One call of _extract_readings on a document *)

Address(link) == [link |-> link]

StructureElements ==
    { ContentHeader(<<"Gospel">>, Some(Address(Some(<<"Luke 21:5-11">>)))),
      ContentHeader(<<"Reading 1">>, Some(Address(Some(<<"Isaiah 1:1">>)))),
      ContentHeader(<<"Responsorial Psalm">>, Some(Address(None))),
      ContentHeader(<<"Alleluia">>, None),
      ContentHeader(<<"Gospel">>, Some(Address(Some(<<>>)))),
      ContentHeader(<<"About Us">>, Some(Address(Some(<<"Luke 21:5-11">>)))),
      Heading("h3", "name", <<"Gospel">>),
      ContentBody(<<<<"In the beginning was the Word.">>>>),
      ContentBody(<<<<"View Reflection">>, <<"Amen.">>>>) }

ParagraphTexts ==
    { <<>>, <<"Amen.">>, <<"View Reflection">>, <<"View reflection">>,
      <<"Listen to the podcast">>, <<"Thanks be to God now">>,
      <<"Thanks be to God now.">>, <<"LISTEN PODCAST of the day">>,
      <<"In the beginning was the Word.">>, <<"And the Word was made flesh.">> }

\* Every body of at most MaxElements elements, and one reading with every
\* body text of at most MaxParagraphs paragraphs
ReadingsDoc(d) ==
    \/ \E n \in 0..MaxElements : \E b \in [1..n -> StructureElements] :
          d = Soup(None, b, <<>>)
    \/ \E n \in 1..MaxParagraphs : \E ps \in [1..n -> ParagraphTexts] :
          d = Soup(None,
                   <<ContentHeader(<<"Gospel">>, Some(Address(Some(<<"Luke 21:5-11">>)))),
                     ContentBody(ps)>>,
                   <<>>)

InitReadings ==
    /\ WrapperUnused
    /\ opc = "extract_readings"
    /\ target_date = NoDate
    /\ url = ""
    /\ ReadingsDoc(page)
    /\ soup = Some(page)
    /\ liturgical_day = None
    /\ readings = None
    /\ outcome = Pending
    /\ self = None
    /\ previous = None
    /\ AIUnused
    /\ SiteUnused

CallExtractReadings ==
    /\ opc = "extract_readings"
    /\ outcome' = ExtractReadings(The(soup))
    /\ opc' = "done"
    /\ UNCHANGED <<target_date, url, page, soup, liturgical_day, readings, self, previous>>
    /\ UNCHANGED retryVars
    /\ UNCHANGED appVars

NextReadings == CallExtractReadings

SpecReadings == InitReadings /\ [][NextReadings]_vars

----------------------------------------------------------------------------
(* One call of _build_url on a date *)

Years == {1999, 2000, 2024, 2025}

\* The number of days of a month of the Gregorian calendar
DaysInMonth(y, mo) ==
    IF mo = 2
    THEN IF (y % 4 = 0 /\ y % 100 # 0) \/ y % 400 = 0 THEN 29 ELSE 28
    ELSE IF mo \in {4, 6, 9, 11} THEN 30 ELSE 31

\* The values of datetime.date in the years of the model
CalendarDates ==
    { d \in [year : Years, month : 1..12, day : 1..31] :
         d.day <= DaysInMonth(d.year, d.month) }

\* A scraper instance, as far as _build_url reads it
Scraper(base) == [base_url |-> base]

BaseUrls == {BaseUrl, "http://localhost:8000/readings"}

InitUrl ==
    /\ WrapperUnused
    /\ opc = "build_url"
    /\ target_date \in CalendarDates
    /\ url = ""
    /\ page = Soup(None, <<>>, <<>>)
    /\ soup = None
    /\ liturgical_day = None
    /\ readings = None
    /\ outcome = Pending
    /\ \E b \in BaseUrls : self = Some(Scraper(b))
    /\ previous = None
    /\ AIUnused
    /\ SiteUnused

CallBuildUrl ==
    /\ opc = "build_url"
    /\ url' = UrlOf(The(self).base_url, target_date)
    /\ outcome' = Returned(url')
    /\ opc' = "done"
    /\ UNCHANGED <<target_date, page, soup, liturgical_day, readings, self, previous>>
    /\ UNCHANGED retryVars
    /\ UNCHANGED appVars

NextUrl == CallBuildUrl

SpecUrl == InitUrl /\ [][NextUrl]_vars

----------------------------------------------------------------------------
(* One call of ReadingEntry.validate on an entry *)

EntryStrings == { <<>>, <<" ">>, <<" ", "\n">>, <<"Gospel">>, <<" ", "Luke 21:5-11", " ">> }

EntryParagraphs == { <<>>, <<" ", "\n">>, <<"Amen.">> }

\* No call of the scraper's own methods is in progress
ExtractorUnused ==
    /\ target_date = NoDate
    /\ url = ""
    /\ page = Soup(None, <<>>, <<>>)
    /\ soup = None
    /\ liturgical_day = None
    /\ readings = None
    /\ outcome = Pending
    /\ previous = None

\* Every entry with a text of at most MaxParagraphs paragraphs
InitEntry ==
    /\ WrapperUnused
    /\ ExtractorUnused
    /\ opc = "entry_validate"
    /\ \E t \in EntryStrings : \E c \in EntryStrings :
          \E n \in 0..MaxParagraphs : \E x \in [1..n -> EntryParagraphs] :
             self = Some(ReadingEntry(t, c, x))
    /\ AIUnused
    /\ SiteUnused

\* How a call of validate() ends: it returns None or raises its error
Validated(e) == IF e # None THEN Raised(The(e)) ELSE Returned(None)

CallReadingEntryValidate ==
    /\ opc = "entry_validate"
    /\ outcome' = Validated(ValidateReadingEntry(The(self)))
    /\ opc' = "done"
    /\ UNCHANGED <<target_date, url, page, soup, liturgical_day, readings, self, previous>>
    /\ UNCHANGED retryVars
    /\ UNCHANGED appVars

NextEntry == CallReadingEntryValidate

SpecEntry == InitEntry /\ [][NextEntry]_vars

----------------------------------------------------------------------------
(* One call of DailyReading.validate on an aggregate *)

GoodEntry == ReadingEntry(<<"Gospel">>, <<"Luke 21:5-11">>, <<<<"Amen.">>>>)

DailyEntries ==
    { GoodEntry,
      ReadingEntry(<<"Reading 1">>, <<"Isaiah 1:1">>, <<<<" ">>, <<"Amen.">>>>),
      ReadingEntry(<<>>, <<"Luke 21:5-11">>, <<<<"Amen.">>>>),
      ReadingEntry(<<"Gospel">>, <<" ">>, <<<<"Amen.">>>>),
      ReadingEntry(<<"Gospel">>, <<"Luke 21:5-11">>, <<>>),
      ReadingEntry(<<"Alleluia">>, <<>>, <<<<" ">>>>) }

DailyStrings == { <<>>, <<" ">>, <<"Saint Cecilia">> }

\* Every aggregate of at most MaxReadings readings
InitDaily ==
    /\ WrapperUnused
    /\ ExtractorUnused
    /\ opc = "daily_validate"
    /\ \E d \in {NoDate, [year |-> 2025, month |-> 11, day |-> 22]} :
          \E dd \in DailyStrings : \E ld \in DailyStrings : \E su \in DailyStrings :
             \E n \in 0..MaxReadings : \E rs \in [1..n -> DailyEntries] :
                self = Some(DailyReading(d, dd, ld, rs, su))
    /\ AIUnused
    /\ SiteUnused

CallDailyReadingValidate ==
    /\ opc = "daily_validate"
    /\ outcome' = Validated(ValidateDailyReading(The(self)))
    /\ opc' = "done"
    /\ UNCHANGED <<target_date, url, page, soup, liturgical_day, readings, self, previous>>
    /\ UNCHANGED retryVars
    /\ UNCHANGED appVars

NextDaily == CallDailyReadingValidate

SpecDaily == InitDaily /\ [][NextDaily]_vars

----------------------------------------------------------------------------
(* USCCBReadingsScraper.get_readings_for_date *)

NextStepRefetching(step, r) ==
    IF r.kind = "raise" /\ r.exc.type = "ParseError" THEN "start"
    ELSE IF r.kind = "raise" THEN "raised"
    ELSE CASE step = "fetch" -> "day"
           [] step = "day" -> "readings"
           [] step = "readings" -> "validate"
           [] step = "validate" -> "returned"

\* Where the call goes after a step that ended as r: an exception is not
\* handled and leaves the call
NextStep(step, r) ==
    IF r.kind = "raise" THEN "raised"
    ELSE CASE step = "fetch" -> "day"
           [] step = "day" -> "readings"
           [] step = "readings" -> "validate"
           [] step = "validate" -> "returned"

\* url = self._build_url(target_date); the call of the decorated _fetch_page
GetReadingsStart ==
    /\ opc = "start"
    /\ url' = BuildUrl(target_date)
    /\ opc' = "fetch"
    /\ wpc' = "loop"
    /\ attempt' = 1
    /\ last_exception' = None
    /\ delay' = 0
    /\ result' = Pending
    /\ UNCHANGED <<max_attempts, backoff_factor, exceptions, wrapped, script, trace>>
    /\ UNCHANGED <<target_date, page, soup, liturgical_day, readings, outcome, self, previous>>
    /\ UNCHANGED appVars

\* soup = <what _fetch_page returned>; the multiple-Mass check
GetReadingsFetched ==
    /\ opc = "fetch"
    /\ wpc \in {"returned", "raised"}
    /\ opc' = NextStep("fetch", result)
    /\ wpc' = "idle"
    /\ IF result.kind = "raise"
       THEN /\ outcome' = result
            /\ UNCHANGED <<soup, trace>>
       ELSE /\ soup' = Some(result.value)
            /\ trace' = Append(trace,
                   Event("check_for_multiple_masses",
                         CheckForMultipleMasses(result.value, DateStr(target_date))))
            /\ UNCHANGED outcome
    /\ UNCHANGED <<max_attempts, backoff_factor, exceptions, wrapped, script,
                   attempt, last_exception, delay, result>>
    /\ UNCHANGED <<target_date, url, page, liturgical_day, readings, self, previous>>
    /\ UNCHANGED appVars

\* liturgical_day = self._extract_liturgical_day(soup)
GetReadingsDay ==
    /\ opc = "day"
    /\ LET r == ExtractLiturgicalDay(The(soup))
       IN  /\ opc' = NextStep("day", r)
           /\ trace' = Append(trace, Event("extract_liturgical_day", r.kind))
           /\ IF r.kind = "raise"
              THEN outcome' = r /\ UNCHANGED liturgical_day
              ELSE liturgical_day' = Some(r.value) /\ UNCHANGED outcome
    /\ UNCHANGED <<target_date, url, page, soup, readings, self, previous>>
    /\ UNCHANGED <<max_attempts, backoff_factor, exceptions, wrapped, script,
                   attempt, last_exception, delay, wpc, result>>
    /\ UNCHANGED appVars

GetReadingsReadingsAccumulating ==
    /\ opc = "readings"
    /\ LET r == ExtractReadings(The(soup))
       IN  /\ opc' = NextStep("readings", r)
           /\ trace' = Append(trace, Event("extract_readings", r.kind))
           /\ IF r.kind = "raise"
              THEN outcome' = r /\ UNCHANGED readings
              ELSE /\ readings' = IF readings = None THEN Some(r.value)
                                  ELSE Some(The(readings) \o r.value)
                   /\ UNCHANGED outcome
    /\ UNCHANGED <<target_date, url, page, soup, liturgical_day, self, previous>>
    /\ UNCHANGED <<max_attempts, backoff_factor, exceptions, wrapped, script,
                   attempt, last_exception, delay, wpc, result>>
    /\ UNCHANGED appVars

\* readings = self._extract_readings(soup)
GetReadingsReadings ==
    /\ opc = "readings"
    /\ LET r == ExtractReadings(The(soup))
       IN  /\ opc' = NextStep("readings", r)
           /\ trace' = Append(trace, Event("extract_readings", r.kind))
           /\ IF r.kind = "raise"
              THEN outcome' = r /\ UNCHANGED readings
              ELSE readings' = Some(r.value) /\ UNCHANGED outcome
    /\ UNCHANGED <<target_date, url, page, soup, liturgical_day, self, previous>>
    /\ UNCHANGED <<max_attempts, backoff_factor, exceptions, wrapped, script,
                   attempt, last_exception, delay, wpc, result>>
    /\ UNCHANGED appVars

\* The DailyReading is built and validated, then returned
GetReadingsValidate ==
    /\ opc = "validate"
    /\ LET daily_reading == DailyReading(target_date, DateDisplay(target_date),
                                         The(liturgical_day), The(readings), <<url>>)
           e == ValidateDailyReading(daily_reading)
           r == IF e # None THEN Raised(The(e)) ELSE Returned(daily_reading)
       IN  /\ opc' = NextStep("validate", r)
           /\ trace' = Append(trace, Event("validate", r.kind))
           /\ outcome' = r
    /\ UNCHANGED <<target_date, url, page, soup, liturgical_day, readings, self, previous>>
    /\ UNCHANGED <<max_attempts, backoff_factor, exceptions, wrapped, script,
                   attempt, last_exception, delay, wpc, result>>
    /\ UNCHANGED appVars

\* What the transport can do with one GET
TransportOutcomes ==
    {[kind |-> "response", status |-> st] : st \in {200, 404, 500}} \cup
    {[kind |-> "raise", type |-> t] :
        t \in {"Timeout", "ConnectionError", "RequestException", "ValueError"}}

Dates == { [year |-> 2025, month |-> 11, day |-> 22],
           [year |-> 2024, month |-> 2, day |-> 29],
           [year |-> 2025, month |-> 12, day |-> 25] }

GospelHeader == ContentHeader(<<"Gospel">>, Some(Address(Some(<<"Luke 21:5-11">>))))
ReadingHeader == ContentHeader(<<"Reading 1">>, Some(Address(Some(<<"Isaiah 1:1">>))))
GoodBody == ContentBody(<<<<"In the beginning was the Word.">>>>)
DayTitle == Some(<<"Saint Cecilia", " ", "-", " ", "Daily Readings">>)

\* The documents served: a regular page, a page with links to several Masses,
\* a page without a liturgical day, pages without readings, a page with a
\* reading whose citation link has no text, a page without a liturgical
\* day with a link to one Mass of a leap day, and a page with paragraphs that
\* the extraction drops
Pages ==
    { Soup(DayTitle, <<ReadingHeader, GoodBody, GospelHeader, GoodBody>>, <<>>),
      Soup(DayTitle, <<GospelHeader, GoodBody>>,
           <<Anchor("122525", "Vigil", <<"Vigil Mass">>),
             Anchor("122525", "Dawn", <<"Mass at Dawn">>)>>),
      Soup(None, <<GospelHeader, GoodBody>>, <<>>),
      Soup(Some(<<"Mass">>), <<Heading("h2", "", <<"EASTER Week">>)>>, <<>>),
      Soup(DayTitle, <<ContentHeader(<<"Responsorial Psalm">>, Some(Address(None))),
                       GoodBody>>, <<>>),
      Soup(DayTitle, <<ReadingHeader, GoodBody,
                       ContentHeader(<<"Gospel">>, Some(Address(Some(<<>>)))),
                       GoodBody>>, <<>>),
      Soup(None, <<GospelHeader, GoodBody>>,
           <<Anchor("112225", "Evening", <<"Evening Prayer">>),
             Anchor("022924", "DAY", <<"Mass during the Day">>)>>),
      Soup(DayTitle,
           <<ReadingHeader,
             ContentBody(<< <<>>, <<"View reflection">>,
                            <<"In the beginning was the Word.">> >>),
             GospelHeader, ContentBody(<< <<>> >>)>>, <<>>) }

InitFetch ==
    /\ max_attempts = FetchMaxAttempts
    /\ backoff_factor = FetchBackoffFactor
    /\ exceptions = FetchRetryExceptions
    /\ wrapped = "fetch_page"
    /\ script \in [1..FetchMaxAttempts -> TransportOutcomes]
    /\ wpc = "idle"
    /\ WrapperEntry
    /\ opc = "start"
    /\ target_date \in Dates
    /\ url = ""
    /\ page \in Pages
    /\ soup = None
    /\ liturgical_day = None
    /\ readings = None
    /\ outcome = Pending
    /\ self = None
    /\ previous = None
    /\ AIUnused
    /\ SiteUnused

NextFetch ==
    \/ GetReadingsStart
    \/ WrapperAttempt
    \/ WrapperSleep
    \/ WrapperRaise
    \/ GetReadingsFetched
    \/ GetReadingsDay
    \/ GetReadingsReadings
    \/ GetReadingsValidate

SpecFetch == InitFetch /\ [][NextFetch]_vars

----------------------------------------------------------------------------
(* Two calls of get_readings_for_date on one scraper, with the same date,   *)
(* while the server keeps the same document                                 *)

\* What the transport can do with one GET of either call
TwiceOutcomes ==
    { [kind |-> "response", status |-> 200],
      [kind |-> "response", status |-> 404],
      [kind |-> "raise", type |-> "Timeout"] }

InitTwice ==
    /\ max_attempts = FetchMaxAttempts
    /\ backoff_factor = FetchBackoffFactor
    /\ exceptions = FetchRetryExceptions
    /\ wrapped = "fetch_page"
    /\ script \in [1..(2 * FetchMaxAttempts) -> TwiceOutcomes]
    /\ wpc = "idle"
    /\ WrapperEntry
    /\ opc = "start"
    /\ target_date \in Dates
    /\ url = ""
    /\ page \in Pages
    /\ soup = None
    /\ liturgical_day = None
    /\ readings = None
    /\ outcome = Pending
    /\ self = None
    /\ previous = None
    /\ AIUnused
    /\ SiteUnused

\* The caller keeps what the first call ended with and calls again; what the
\* first call left in the scraper stays as it is
GetReadingsAgain ==
    /\ opc \in {"returned", "raised"}
    /\ previous = None
    /\ previous' = Some(outcome)
    /\ outcome' = Pending
    /\ opc' = "start"
    /\ UNCHANGED <<target_date, url, page, soup, liturgical_day, readings, self>>
    /\ UNCHANGED retryVars
    /\ UNCHANGED appVars

NextTwice ==
    \/ GetReadingsStart
    \/ WrapperAttempt
    \/ WrapperSleep
    \/ WrapperRaise
    \/ GetReadingsFetched
    \/ GetReadingsDay
    \/ GetReadingsReadings
    \/ GetReadingsValidate
    \/ GetReadingsAgain

SpecTwice == InitTwice /\ [][NextTwice]_vars

-----------------------------------------------------------------------------
(* ai/cost_tracker.py.  Amounts are in millionths of a dollar, so that the *)
(* prices per million tokens (3.00 and 15.00) make every cost an integer.  *)

\* CostTracker.calculate_cost
CalculateCost(input_tokens, output_tokens) ==
    IF input_tokens < 0 \/ output_tokens < 0
    THEN Raised([type |-> "ValueError"])
    ELSE Returned(input_tokens * 3 + output_tokens * 15)

\* CostTracker.total_cost: sum(call.cost_usd for call in self.calls)
RECURSIVE TotalCost(_)
TotalCost(calls) ==
    IF calls = <<>> THEN 0
    ELSE TotalCost(SubSeq(calls, 1, Len(calls) - 1)) + calls[Len(calls)].cost_usd

\* CostTracker.remaining_budget
RemainingBudget(tracker) == tracker.max_cost_usd - TotalCost(tracker.calls)

RecordCallAppendingFirst(tracker, operation, input_tokens, output_tokens) ==
    LET cost == CalculateCost(input_tokens, output_tokens)
        appended == [tracker EXCEPT !.calls =
                        Append(@, [operation |-> operation,
                                   input_tokens |-> input_tokens,
                                   output_tokens |-> output_tokens,
                                   cost_usd |-> cost.value])]
    IN  IF cost.kind = "raise" THEN [result |-> cost, tracker |-> tracker]
        ELSE IF TotalCost(appended.calls) > tracker.max_cost_usd
        THEN [result |-> Raised([type |-> "RuntimeError"]), tracker |-> appended]
        ELSE [result |-> Returned(None), tracker |-> appended]

RecordCallRejectingAtLimit(tracker, operation, input_tokens, output_tokens) ==
    LET cost == CalculateCost(input_tokens, output_tokens)
    IN  IF cost.kind = "raise" THEN [result |-> cost, tracker |-> tracker]
        ELSE IF TotalCost(tracker.calls) + cost.value >= tracker.max_cost_usd
        THEN [result |-> Raised([type |-> "RuntimeError"]), tracker |-> tracker]
        ELSE [result |-> Returned(None),
              tracker |-> [tracker EXCEPT !.calls =
                              Append(@, [operation |-> operation,
                                         input_tokens |-> input_tokens,
                                         output_tokens |-> output_tokens,
                                         cost_usd |-> cost.value])]]

\* CostTracker.record_call: how the call ends, and the tracker afterwards
RecordCall(tracker, operation, input_tokens, output_tokens) ==
    LET cost == CalculateCost(input_tokens, output_tokens)
    IN  IF cost.kind = "raise" THEN [result |-> cost, tracker |-> tracker]
        ELSE LET total_with_new == TotalCost(tracker.calls) + cost.value
             IN  IF total_with_new > tracker.max_cost_usd
                 THEN [result |-> Raised([type |-> "RuntimeError"]), tracker |-> tracker]
                 ELSE [result |-> Returned(None),
                       tracker |-> [tracker EXCEPT !.calls =
                                       Append(@, [operation |-> operation,
                                                  input_tokens |-> input_tokens,
                                                  output_tokens |-> output_tokens,
                                                  cost_usd |-> cost.value])]]

\* Token counts of one call: (input_tokens, output_tokens)
Usages == { <<1000, 600>>, <<2000, 600>>, <<0, 0>>, <<0 - 1, 600>>, <<1000, 0 - 1>> }

\* A tracker is built with a positive limit (__post_init__) and no calls
InitCost ==
    /\ WrapperUnused
    /\ ScraperUnused
    /\ SiteUnused
    /\ \E mc \in {12000, 24000, 40000} :
          cost_tracker = [max_cost_usd |-> mc, calls |-> <<>>]
    /\ requests = <<>>
    /\ max_retries = 3
    /\ cpc = "tracker"
    /\ reflection_attempt = 0
    /\ response = None
    /\ ai_result = Pending

\* tracker.record_call(operation, input_tokens, output_tokens)
CallRecordCall ==
    /\ cpc = "tracker"
    /\ Len(cost_tracker.calls) < MaxCalls
    /\ \E operation \in {"synopsis", "reflection"} : \E u \in Usages :
          LET r == RecordCall(cost_tracker, operation, u[1], u[2])
          IN  /\ cost_tracker' = r.tracker
              /\ ai_result' = r.result
    /\ UNCHANGED <<requests, max_retries, cpc, reflection_attempt, response>>
    /\ UNCHANGED <<files, latest, filepath>>
    /\ UNCHANGED <<retryVars, scraperVars>>

NextCost == CallRecordCall

SpecCost == InitCost /\ [][NextCost]_vars

-----------------------------------------------------------------------------
(* ai/client.py and ai/models.py.  The text of an API answer is what       *)
(* json.loads makes of it: not JSON at all, an array, or an object `data`; *)
(* a number of the object carries its JSON type.                           *)

\* Answers of the API: the client has no say in what the model writes
ResponseTexts ==
    LET q == <<"What do you seek", "?">>
        Cit(t, n) == [paragraph_number |-> [t |-> t, v |-> n],
                      excerpt_text |-> <<"God is love">>]
        Object(d) == [json |-> "object", data |-> d]
    IN  { [json |-> "invalid"],
          [json |-> "array"],
          Object([reflection_text |-> <<"Today">>, pondering_questions |-> <<q, q>>,
                  ccc_citations |-> <<Cit("int", 1234)>>]),
          Object([pondering_questions |-> <<q, q>>,
                  ccc_citations |-> <<Cit("int", 1234)>>]),
          Object([reflection_text |-> <<"Today">>, pondering_questions |-> <<q, q>>,
                  ccc_citations |-> <<Cit("int", 1234), Cit("int", 2866)>>]),
          Object([reflection_text |-> <<"Today">>, pondering_questions |-> <<q, q>>,
                  ccc_citations |-> <<Cit("str", 1234)>>]),
          Object([reflection_text |-> <<"Today">>,
                  pondering_questions |-> <<q, <<"Amen">>>>,
                  ccc_citations |-> <<Cit("int", 1)>>]),
          Object([synopsis |-> <<"God calls Abraham">>]),
          Object([synopsis |-> <<" ">>]) }

\* generate_synopsis, lines 93-100: the exception of the parsing, if any
SynopsisError(text) ==
    IF text.json = "invalid" THEN Some("ValueError")
    ELSE IF text.json = "array" THEN Some("AttributeError")
    ELSE LET synopsis_text == IF "synopsis" \in DOMAIN text.data
                              THEN Strip(text.data["synopsis"]) ELSE <<>>
         IN  IF synopsis_text = <<>> \/ StrLen(synopsis_text) = 0
             THEN Some("ValueError") ELSE None

\* generate_reflection, lines 151-174 with CCCCitation.__post_init__ and
\* DailyReflection.__post_init__: the exception of the parsing, if any
ReflectionError(text) ==
    IF text.json = "invalid" THEN Some("JSONDecodeError")
    ELSE IF text.json = "array" THEN Some("AttributeError")
    ELSE LET data == text.data
             cits == IF "ccc_citations" \in DOMAIN data
                     THEN data["ccc_citations"] ELSE <<>>
             CitationError(c) ==
                 IF "paragraph_number" \notin DOMAIN c THEN Some("KeyError")
                 ELSE IF "excerpt_text" \notin DOMAIN c THEN Some("KeyError")
                 ELSE IF c["paragraph_number"].t # "int" THEN Some("TypeError")
                 ELSE IF ~(1 <= c["paragraph_number"].v /\ c["paragraph_number"].v <= 2865)
                 THEN Some("ValueError")
                 ELSE IF c["excerpt_text"] = <<>> THEN Some("ValueError")
                 ELSE None
             bad == {i \in 1..Len(cits) : CitationError(cits[i]) # None}
         IN  IF bad # {} THEN CitationError(cits[First(bad)])
             ELSE IF "reflection_text" \notin DOMAIN data THEN Some("KeyError")
             ELSE IF "pondering_questions" \notin DOMAIN data THEN Some("KeyError")
             ELSE IF data["reflection_text"] = <<>> THEN Some("ValueError")
             ELSE IF Len(data["pondering_questions"]) < 2 THEN Some("ValueError")
             ELSE IF \E i \in 1..Len(data["pondering_questions"]) :
                        LET question == data["pondering_questions"][i]
                        IN  question = <<>> \/ question[Len(question)] # "?"
             THEN Some("ValueError")
             ELSE IF ~(1 <= Len(cits) /\ Len(cits) <= 2) THEN Some("ValueError")
             ELSE None

\* AnthropicClient(api_key, max_cost_per_reflection)
InitAI ==
    /\ WrapperUnused
    /\ ScraperUnused
    /\ SiteUnused
    /\ \E mc \in {24000, 40000} : cost_tracker = [max_cost_usd |-> mc, calls |-> <<>>]
    /\ requests = <<>>
    /\ max_retries = 3
    /\ cpc = "none"
    /\ reflection_attempt = 0
    /\ response = None
    /\ ai_result = Pending

\* generate_synopsis, lines 70-87: the input checks and the API request
GenerateSynopsisRequest ==
    /\ cpc = "none"
    /\ Len(requests) < MaxCalls
    /\ \E reading_text \in {<<>>, <<" ">>, <<"In the beginning">>} :
          \E citation \in {<<>>, <<"John 1:1">>} :
             IF IsBlank(reading_text) \/ IsBlank(citation)
             THEN /\ ai_result' = Raised([type |-> "ValueError"])
                  /\ UNCHANGED <<requests, response, cpc>>
             ELSE \E u \in {v \in Usages : v[1] > 0 /\ v[2] > 0} :
                     \E text \in ResponseTexts :
                        /\ requests' = Append(requests,
                              [operation |-> "synopsis", input_tokens |-> u[1],
                               output_tokens |-> u[2], attempt |-> 0])
                        /\ response' = Some([input_tokens |-> u[1],
                                             output_tokens |-> u[2], text |-> text])
                        /\ cpc' = "synopsis_requested"
                        /\ ai_result' = Pending
    /\ UNCHANGED <<cost_tracker, max_retries, reflection_attempt>>
    /\ UNCHANGED <<files, latest, filepath>>
    /\ UNCHANGED <<retryVars, scraperVars>>

\* generate_synopsis, lines 89-106: record the cost, parse, build the result.
\* reading_title is an argument of the call that only the last statement uses.
GenerateSynopsisRecord ==
    /\ cpc = "synopsis_requested"
    /\ \E reading_title \in {<<>>, <<"Gospel">>} :
          LET r == RecordCall(cost_tracker, "synopsis", The(response).input_tokens,
                              The(response).output_tokens)
              e == SynopsisError(The(response).text)
          IN  /\ cost_tracker' = r.tracker
              /\ ai_result' =
                    IF r.result.kind = "raise" THEN r.result
                    ELSE IF e # None THEN Raised([type |-> The(e)])
                    ELSE IF reading_title = <<>> THEN Raised([type |-> "ValueError"])
                    ELSE Returned([reading_title |-> reading_title,
                                   synopsis_text |-> Strip(The(response).text.data["synopsis"]),
                                   tokens_used |-> The(response).output_tokens])
    /\ cpc' = "none"
    /\ response' = None
    /\ UNCHANGED <<requests, max_retries, reflection_attempt>>
    /\ UNCHANGED <<files, latest, filepath>>
    /\ UNCHANGED <<retryVars, scraperVars>>

\* generate_reflection, lines 135-145: the head of the loop and the API
\* request of one attempt; line 187 when the loop has no iteration
GenerateReflectionRequest ==
    /\ Len(requests) < MaxCalls
    /\ \/ /\ cpc = "none"
          /\ max_retries' \in (0 - 1)..MaxRetries
          /\ reflection_attempt' = 0
       \/ /\ cpc = "reflection_loop"
          /\ UNCHANGED <<max_retries, reflection_attempt>>
    /\ IF reflection_attempt' < max_retries'
       THEN \E u \in {v \in Usages : v[1] > 0 /\ v[2] > 0} :
               \E text \in ResponseTexts :
                  /\ requests' = Append(requests,
                        [operation |-> "reflection", input_tokens |-> u[1],
                         output_tokens |-> u[2], attempt |-> reflection_attempt'])
                  /\ response' = Some([input_tokens |-> u[1],
                                       output_tokens |-> u[2], text |-> text])
                  /\ cpc' = "reflection_requested"
                  /\ ai_result' = Pending
       ELSE /\ ai_result' = Raised([type |-> "ValueError"])
            /\ cpc' = "none"
            /\ UNCHANGED <<requests, response>>
    /\ UNCHANGED cost_tracker
    /\ UNCHANGED <<files, latest, filepath>>
    /\ UNCHANGED <<retryVars, scraperVars>>

\* generate_reflection, lines 147-185: record the cost, parse, and return,
\* go round the loop again or raise
GenerateReflectionRecord ==
    /\ cpc = "reflection_requested"
    /\ LET r == RecordCall(cost_tracker, "reflection", The(response).input_tokens,
                           The(response).output_tokens)
           e == ReflectionError(The(response).text)
       IN  /\ cost_tracker' = r.tracker
           /\ IF r.result.kind = "raise"
              THEN /\ ai_result' = r.result
                   /\ cpc' = "none"
                   /\ UNCHANGED reflection_attempt
              ELSE IF e = None
              THEN /\ ai_result' = Returned(
                          [reflection |-> The(response).text.data,
                           input_tokens |-> The(response).input_tokens,
                           output_tokens |-> The(response).output_tokens])
                   /\ cpc' = "none"
                   /\ UNCHANGED reflection_attempt
              ELSE IF The(e) \in {"JSONDecodeError", "KeyError", "ValueError"}
              THEN IF reflection_attempt < max_retries - 1
                   THEN /\ reflection_attempt' = reflection_attempt + 1
                        /\ cpc' = "reflection_loop"
                        /\ UNCHANGED ai_result
                   ELSE /\ ai_result' = Raised([type |-> "ValueError"])
                        /\ cpc' = "none"
                        /\ UNCHANGED reflection_attempt
              ELSE /\ ai_result' = Raised([type |-> The(e)])
                   /\ cpc' = "none"
                   /\ UNCHANGED reflection_attempt
    /\ response' = None
    /\ UNCHANGED <<requests, max_retries>>
    /\ UNCHANGED <<files, latest, filepath>>
    /\ UNCHANGED <<retryVars, scraperVars>>

NextAI ==
    \/ GenerateSynopsisRequest
    \/ GenerateSynopsisRecord
    \/ GenerateReflectionRequest
    \/ GenerateReflectionRecord

SpecAI == InitAI /\ [][NextAI]_vars

-----------------------------------------------------------------------------
(* generator/message.py and generator/readings.py, writing through        *)
(* utils/file_ops.py.  A path is the pair (directory, file name); a text   *)
(* file is the sequence of its lines, an HTML page the record of what the  *)
(* template is filled with.                                                *)

\* generate_message_content
MessageContent(date) ==
    << "---", "layout: post", "title: \"Daily Message for " \o date \o "\"",
       "date: " \o date, "---", "", "# " \o date, "", "Hello Catholic World" >>

MessageFilePathUndated(date, output_dir) == <<output_dir, "daily-message.md">>

\* get_message_file_path
MessageFilePath(date, output_dir) == <<output_dir, date \o "-daily-message.md">>

\* generate_readings_html: validate, then fill the template with escaped text
ReadingsHtml(reading) ==
    LET Escape(c) == CASE c = "&" -> "&amp;"
                       [] c = "<" -> "&lt;"
                       [] c = ">" -> "&gt;"
                       [] c = "\"" -> "&quot;"
                       [] c = "'" -> "&#x27;"
                       [] OTHER -> c
        sanitize_text(text) == [i \in 1..Len(text) |-> Escape(text[i])]
        error == ValidateDailyReading(reading)
    IN  IF error # None THEN Raised(The(error))
        ELSE Returned(
               [liturgical_day |-> sanitize_text(reading.liturgical_day),
                date_display |-> sanitize_text(reading.date_display),
                source_url |-> sanitize_text(reading.source_url),
                readings |-> [i \in 1..Len(reading.readings) |->
                    [title |-> sanitize_text(reading.readings[i].title
                                               \o <<" (">> \o reading.readings[i].citation
                                               \o <<")">>),
                     text |-> [j \in 1..Len(reading.readings[i].text) |->
                                  sanitize_text(Strip(reading.readings[i].text[j]))]]]])

InitSite ==
    /\ WrapperUnused
    /\ ScraperUnused
    /\ AIUnused
    /\ SiteUnused

\* generate_message(output_dir, date), with write_file_safe
GenerateMessage ==
    /\ \E output_dir \in {"_site/messages", "docs/messages"} :
          \E date \in {None, Some(""), Some("2025-11-22"), Some("2025-11-23")} :
             \E today \in {"2025-11-23", "2025-11-24"} :
                LET date_str == IF date = None \/ date = Some("") THEN today ELSE The(date)
                    content == MessageContent(date_str)
                    path == MessageFilePath(date_str, output_dir)
                IN  /\ files' = [f \in DOMAIN files \cup {path} |->
                                    IF f = path THEN content ELSE files[f]]
                    /\ latest' = [latest EXCEPT !.message =
                                    [k \in DOMAIN @ \cup {<<output_dir, date_str>>} |->
                                        IF k = <<output_dir, date_str>> THEN content ELSE @[k]]]
                    /\ filepath' = Returned(path)
    /\ UNCHANGED <<cost_tracker, requests, max_retries, cpc, reflection_attempt,
                   response, ai_result>>
    /\ UNCHANGED <<retryVars, scraperVars>>

\* generate_readings_page(reading, output_dir)
GenerateReadingsPage ==
    /\ \E output_dir \in {"_site/readings"} :
          \E d \in {NoDate, [year |-> 2025, month |-> 11, day |-> 22],
                    [year |-> 2025, month |-> 11, day |-> 23]} :
             \E day \in {<<>>, <<"Friday of Week 34">>, <<"Saints Peter ", "&", " Paul">>} :
                LET reading == DailyReading(d, <<"2025-11-22 Display">>, day, <<GoodEntry>>,
                                            <<"https://bible.usccb.org/bible/readings/test.cfm">>)
                    html_content == ReadingsHtml(reading)
                    Pad4(n) == IF n < 10 THEN "000" \o ToString(n)
                               ELSE IF n < 100 THEN "00" \o ToString(n)
                               ELSE IF n < 1000 THEN "0" \o ToString(n)
                               ELSE ToString(n)
                    filename == Pad4(d.year) \o "-" \o Pad2(d.month) \o "-" \o Pad2(d.day)
                                   \o ".html"
                    file_path == <<output_dir, filename>>
                IN  IF html_content.kind = "raise"
                    THEN /\ filepath' = html_content
                         /\ UNCHANGED <<files, latest>>
                    ELSE /\ files' = [f \in DOMAIN files \cup {file_path} |->
                                         IF f = file_path THEN html_content.value
                                         ELSE files[f]]
                         /\ latest' = [latest EXCEPT !.readings =
                                         [k \in DOMAIN @ \cup {<<output_dir, d>>} |->
                                             IF k = <<output_dir, d>> THEN html_content.value
                                             ELSE @[k]]]
                         /\ filepath' = Returned(file_path)
    /\ UNCHANGED <<cost_tracker, requests, max_retries, cpc, reflection_attempt,
                   response, ai_result>>
    /\ UNCHANGED <<retryVars, scraperVars>>

NextSite ==
    \/ GenerateMessage
    \/ GenerateReadingsPage

SpecSite == InitSite /\ [][NextSite]_vars

----------------------------------------------------------------------------
(* Properties of the retry wrapper *)

Terminal == wpc \in {"returned", "raised"}

\* The invocations and sleeps of the trace, in order
CallsAndSleeps(t) == SelectSeq(t, LAMBDA e : e.ev \in {"call", "sleep"})

Sleeps(t) == SelectSeq(t, LAMBDA e : e.ev = "sleep")

IsPrefix(s, t) == Len(s) <= Len(t) /\ SubSeq(t, 1, Len(s)) = s

\* The exception type is of one of the configured classes
InConfiguredSet(t) == \E c \in exceptions : IsSubclass(t, c)

Retryable(i) == script[i].kind = "raise" /\ InConfiguredSet(script[i].type)

\* The operation fails retryably on its first k invocations, then succeeds
FailsThenSucceeds(k) ==
    /\ k + 1 <= Len(script)
    /\ \A i \in 1..k : Retryable(i)
    /\ script[k + 1].kind = "return"

\* call 1, sleep f^0, call 2, sleep f^1, ..., sleep f^(k-1), call k+1
Alternation(k) ==
    [i \in 1..(2 * k + 1) |->
        IF i % 2 = 1
        THEN Event("call", (i + 1) \div 2)
        ELSE Event("sleep", Pow(backoff_factor, (i \div 2) - 1))]

\* C1: when the operation raises a retryable exception on its first
\* k < max_attempts invocations and then succeeds, the wrapped call returns
\* the value of invocation k+1, after exactly k+1 invocations, and its sleeps
\* are factor^0 .. factor^(k-1), each between the failure it follows and the
\* next invocation; the call never ends by raising and never stops early.
C1_RetrySuccessPath ==
    \A k \in 0..(max_attempts - 1) :
        FailsThenSucceeds(k) =>
            /\ IsPrefix(CallsAndSleeps(trace), Alternation(k))
            /\ wpc # "raised"
            /\ wpc = "returned" =>
                  /\ result = Returned([val |-> k + 1])
                  /\ CallsAndSleeps(trace) = Alternation(k)
                  /\ Calls(trace) = k + 1
                  /\ Sleeps(trace) =
                        [i \in 1..k |-> Event("sleep", Pow(backoff_factor, i - 1))]
            /\ ~Terminal => ENABLED NextRetry

C1_Witness ==
    /\ wpc = "returned"
    /\ max_attempts = 3
    /\ backoff_factor = 3
    /\ FailsThenSucceeds(2)
    /\ Sleeps(trace) = <<Event("sleep", 1), Event("sleep", 3)>>

AlwaysFails == \A i \in 1..max_attempts : i <= Len(script) /\ Retryable(i)

\* C2: when every invocation raises a retryable exception (max_attempts >= 1,
\* so that there is a final invocation), the wrapped call invokes the
\* operation exactly max_attempts times, sleeps exactly max_attempts - 1
\* times, never after the final failure, and raises the very exception object
\* of the final invocation.
C2_RetryExhaustion ==
    (max_attempts >= 1 /\ AlwaysFails) =>
        /\ Calls(trace) <= max_attempts
        /\ Len(Sleeps(trace)) <= max_attempts - 1
        /\ wpc # "returned"
        /\ wpc = "raised" =>
              /\ Calls(trace) = max_attempts
              /\ Len(Sleeps(trace)) = max_attempts - 1
              /\ CallsAndSleeps(trace)[Len(CallsAndSleeps(trace))] =
                     Event("call", max_attempts)
              /\ result = Raised([type |-> script[max_attempts].type,
                                  id |-> max_attempts])
        /\ ~Terminal => ENABLED NextRetry

C2_Witness ==
    /\ wpc = "raised"
    /\ max_attempts = 3
    /\ AlwaysFails
    /\ script[2].type # script[3].type
    /\ Calls(trace) = 3

NotRetryable(i) == script[i].kind = "raise" /\ ~InConfiguredSet(script[i].type)

\* C3: an invocation that raises an exception outside the configured set
\* ends the wrapped call at once: it is the last invocation, nothing (no
\* sleep, no log event) follows it, and its exception is what the call raises,
\* however many attempts remain.
C3_NonRetryablePropagates ==
    \A i \in 1..Calls(trace) :
        NotRetryable(i) =>
            /\ i = Calls(trace)
            /\ trace[Len(trace)] = Event("call", i)
            /\ wpc = "raised"
            /\ result = Raised([type |-> script[i].type, id |-> i])

C3_Witness ==
    /\ wpc = "raised"
    /\ max_attempts = 3
    /\ Calls(trace) = 2
    /\ NotRetryable(2)
    /\ Len(Sleeps(trace)) = 1

----------------------------------------------------------------------------
(* Properties of the fetch and of get_readings_for_date *)

Gets(t) == Cardinality({i \in 1..Len(t) : t[i].ev = "get"})

\* The transport made the GET fail: an exception of session.get, or an error
\* status
TransportFailed(t) == t.kind = "raise" \/ (t.kind = "response" /\ t.status >= 400)

\* The exception the most recent invocation of the fetch body raised
LastFetchError == The(last_exception)

\* C4: however a fetch attempt fails (timeout, connection failure, HTTP error
\* status, another request exception, any other exception), what the body of
\* _fetch_page raises is a NetworkError whose url is the requested URL, and
\* nothing but a NetworkError with that url leaves the decorated _fetch_page.
C4_FailureTaxonomy ==
    /\ \A n \in 1..Calls(trace) :
          (n = Calls(trace) /\ TransportFailed(script[n])) =>
              /\ last_exception # None
              /\ LastFetchError.type = "NetworkError"
              /\ LastFetchError.url = BuildUrl(target_date)
              /\ LastFetchError.id = n
    /\ result.kind = "raise" =>
          /\ result.exc.type = "NetworkError"
          /\ result.exc.url = BuildUrl(target_date)
    /\ (opc = "raised" /\ Len(SelectSeq(trace, LAMBDA e : e.ev = "extract_liturgical_day")) = 0) =>
          /\ outcome.exc.type = "NetworkError"
          /\ outcome.exc.url = BuildUrl(target_date)

\* Three attempts failing in three different ways, the last one with an
\* exception that is no request exception
C4_Witness ==
    /\ opc = "raised"
    /\ script[1] = [kind |-> "raise", type |-> "Timeout"]
    /\ script[2] = [kind |-> "response", status |-> 500]
    /\ script[3] = [kind |-> "raise", type |-> "ValueError"]
    /\ outcome.exc.type = "NetworkError"
    /\ outcome.exc.id = 3

\* C5: after an attempt that the server answered with a 4xx or 5xx status,
\* the NetworkError raised carries that status code.
C5_StatusCodeCarried ==
    \A n \in 1..Calls(trace) :
        (n = Calls(trace) /\ script[n].kind = "response" /\ script[n].status >= 400) =>
            /\ last_exception # None
            /\ LastFetchError.status_code = Some(script[n].status)

FirstSuccess == First({i \in 1..FetchMaxAttempts : ~TransportFailed(script[i])})

\* C6: one call of _fetch_page issues at most 3 GETs and no GET after one
\* that succeeded; it returns the document of the first successful GET, after
\* exactly that many GETs, whatever the kinds of the failures before it; when
\* all 3 GETs fail it has slept 1 s then 2 s and raises the NetworkError of
\* the third attempt.
C6_FetchRetryPolicy ==
    /\ Gets(trace) <= 3
    /\ Gets(trace) = Calls(trace)
    /\ FirstSuccess # 0 => Gets(trace) <= FirstSuccess
    /\ (wpc \in {"returned", "raised"} \/ opc \notin {"start", "fetch"}) =>
          IF FirstSuccess # 0
          THEN /\ result = Returned(page)
               /\ Gets(trace) = FirstSuccess
               /\ Sleeps(trace) = [i \in 1..(FirstSuccess - 1) |-> Event("sleep", Pow(2, i - 1))]
          ELSE /\ result.kind = "raise"
               /\ result.exc.type = "NetworkError"
               /\ result.exc.id = 3
               /\ Gets(trace) = 3
               /\ Sleeps(trace) = <<Event("sleep", 1), Event("sleep", 2)>>

\* An HTTP error status, then a timeout, then a document
C6_Witness ==
    /\ wpc = "returned"
    /\ script[1] = [kind |-> "response", status |-> 404]
    /\ script[2] = [kind |-> "raise", type |-> "Timeout"]
    /\ result = Returned(page)
    /\ Gets(trace) = 3

C6_WitnessExhausted ==
    /\ wpc = "raised"
    /\ Gets(trace) = 3
    /\ script[3] = [kind |-> "response", status |-> 500]

ExtractionSteps == {"extract_liturgical_day", "extract_readings", "validate"}

CountOf(t, ev) == Cardinality({i \in 1..Len(t) : t[i].ev = ev})

\* C7: when the fetch ends in a NetworkError no extraction or validation step
\* runs and the call raises that error; once an extraction or validation step
\* has run no further GET is issued and no step runs twice; a ParseError or
\* ValidationError of a step is what the call raises, and nothing (no GET, no
\* sleep, no step) follows the step that raised; a DailyReading is returned
\* only by a call in which no step raised.
C7_AbortPolicy ==
    /\ result.kind = "raise" =>
          /\ \A i \in 1..Len(trace) : trace[i].ev \notin ExtractionSteps
          /\ opc \in {"fetch", "raised"}
          /\ opc = "raised" => outcome = result
    /\ \A i \in 1..Len(trace) : \A j \in 1..Len(trace) :
          (i < j /\ trace[i].ev \in ExtractionSteps) => trace[j].ev \notin {"get", "call", "sleep"}
    /\ \A ev \in ExtractionSteps : CountOf(trace, ev) <= 1
    /\ \A i \in 1..Len(trace) :
          (trace[i].ev \in ExtractionSteps /\ trace[i].arg = "raise") =>
              /\ i = Len(trace)
              /\ opc = "raised"
              /\ outcome.kind = "raise"
              /\ outcome.exc.type \in {"ParseError", "ValidationError"}
    /\ outcome.kind = "return" =>
          /\ opc = "returned"
          /\ \A i \in 1..Len(trace) : trace[i].ev \in ExtractionSteps => trace[i].arg = "return"
    /\ opc = "raised" => outcome.kind = "raise"

\* A ValidationError after two failed GETs and a third that succeeded
C7_Witness ==
    /\ opc = "raised"
    /\ outcome.kind = "raise"
    /\ outcome.exc.type = "ValidationError"
    /\ Gets(trace) = 3

C7_WitnessParseError ==
    /\ opc = "raised"
    /\ outcome = Raised(ParseError("readings"))
    /\ Gets(trace) = 2

C7_WitnessNetworkError ==
    /\ opc = "raised"
    /\ outcome.kind = "raise"
    /\ outcome.exc.type = "NetworkError"
    /\ Len(trace) > 0

----------------------------------------------------------------------------
(* Properties of the liturgical-day extractor *)

\* A title that qualifies: what is left of it after the boilerplate is
\* removed has more than 10 characters
QualifyingTitle(d) ==
    /\ d.title # None
    /\ StrLen(CleanTitle(Strip(The(d.title)))) > 10

\* An h2 or h3 that qualifies for the keyword strategy
QualifyingKeywordHeading(d) ==
    \E i \in 1..Len(Headings(d)) :
        /\ Headings(d)[i].tag \in {"h2", "h3"}
        /\ ContainsAny(Headings(d)[i].text, DayKeywords)
        /\ StrLen(Headings(d)[i].text) > 10

\* C8: the strategies are tried in the order title tag, class-hinted heading,
\* keyword heading, and the first that succeeds gives the result; a document
\* with a qualifying title and a qualifying keyword heading yields the title.
C8_FallbackOrdering ==
    opc = "done" =>
        LET s1 == TitleStrategy(page)
            s2 == ClassHintStrategy(page)
            s3 == KeywordStrategy(page)
        IN  /\ s1 # None => outcome = Returned(The(s1))
            /\ (s1 = None /\ s2 # None) => outcome = Returned(The(s2))
            /\ (s1 = None /\ s2 = None /\ s3 # None) => outcome = Returned(The(s3))
            /\ (QualifyingTitle(page) /\ QualifyingKeywordHeading(page)) =>
                   outcome = Returned(Strip(CleanTitle(Strip(The(page.title)))))

C8_Witness ==
    /\ opc = "done"
    /\ QualifyingTitle(page)
    /\ QualifyingKeywordHeading(page)
    /\ outcome.kind = "return"
    /\ outcome.value # The(KeywordStrategy(page))
    /\ The(page.title) # outcome.value

\* C9: the extractor raises ParseError(element "liturgical_day") exactly when
\* all three strategies fail, and otherwise returns a string that is neither
\* empty nor blank; it ends in no other way.
C9_DayTotalFailure ==
    opc = "done" =>
        LET failed == /\ TitleStrategy(page) = None
                      /\ ClassHintStrategy(page) = None
                      /\ KeywordStrategy(page) = None
        IN  /\ outcome.kind \in {"return", "raise"}
            /\ outcome.kind = "raise" <=> failed
            /\ outcome.kind = "raise" => outcome.exc = ParseError("liturgical_day")
            /\ outcome.kind = "return" =>
                   /\ StrLen(outcome.value) > 0
                   /\ ~IsBlank(outcome.value)

C9_Witness ==
    /\ opc = "done"
    /\ outcome = Raised(ParseError("liturgical_day"))
    /\ page.title = Some(<<"Mass">>)
    /\ Len(page.body) = 2
    /\ \E i \in 1..2 : page.body[i].class = "page-title" /\ page.body[i].text # <<>>

----------------------------------------------------------------------------
(* Properties of the readings extractor *)

\* The i-th element is a candidate: an h3 of class "name" whose title has a
\* reading keyword
Candidate(d, i) ==
    /\ d.body[i].el \in {"heading", "content-header"}
    /\ HeadingOf(d.body[i]).tag = "h3"
    /\ HeadingOf(d.body[i]).class = "name"
    /\ ContainsAny(HeadingOf(d.body[i]).text, ReadingKeywords)

\* The candidate has a citation link in its container
HasCitationLink(d, i) ==
    /\ d.body[i].el = "content-header"
    /\ d.body[i].address # None
    /\ The(d.body[i].address).link # None

\* The body paragraphs of the candidate that survive the filter
SurvivingParagraphs(d, i) ==
    LET js == {j \in (i + 1)..Len(d.body) : d.body[j].el = "content-body"}
    IN  IF js = {} THEN <<>>
        ELSE SelectSeq(d.body[First(js)].paragraphs,
                       LAMBDA p : StrLen(p) > 20 /\ ~ContainsAny(p, NavigationPhrases))

Survivor(d, i) ==
    Candidate(d, i) /\ HasCitationLink(d, i) /\ SurvivingParagraphs(d, i) # <<>>

\* The indices of the surviving candidates, in document order
Survivors(d) ==
    SelectSeq([i \in 1..Len(d.body) |-> i], LAMBDA i : Survivor(d, i))

\* C10: when some candidate survives, the extractor returns, without
\* raising, exactly one entry per candidate that has a citation link and a
\* surviving body paragraph, in document order, with the candidate's title,
\* citation text and surviving paragraphs.
C10_PartialFailureTolerance ==
    (opc = "done" /\ Survivors(page) # <<>>) =>
        /\ outcome.kind = "return"
        /\ Len(outcome.value) = Len(Survivors(page))
        /\ \A k \in 1..Len(Survivors(page)) :
              LET i == Survivors(page)[k]
              IN  outcome.value[k] =
                      ReadingEntry(page.body[i].title,
                                   The(The(page.body[i].address).link),
                                   SurvivingParagraphs(page, i))

\* Three candidates, the second without its citation anchor: two entries
C10_Witness ==
    /\ opc = "done"
    /\ Len(page.body) = 4
    /\ \A i \in 1..3 : Candidate(page, i)
    /\ HasCitationLink(page, 1) /\ ~HasCitationLink(page, 2) /\ HasCitationLink(page, 3)
    /\ page.body[2].address # None
    /\ outcome.kind = "return"
    /\ Len(outcome.value) = 2
    /\ outcome.value[1].title # outcome.value[2].title

\* C11: the extractor raises ParseError(element "readings") exactly when no
\* candidate survives, and with one or more survivors, however few, returns
\* a sequence of that many entries; it ends in no other way.
C11_ReadingsThreshold ==
    opc = "done" =>
        /\ outcome.kind \in {"return", "raise"}
        /\ outcome.kind = "raise" <=> Survivors(page) = <<>>
        /\ outcome.kind = "raise" => outcome.exc = ParseError("readings")
        /\ outcome.kind = "return" =>
               /\ Len(outcome.value) >= 1
               /\ Len(outcome.value) = Len(Survivors(page))

\* Three candidates of which one survives: a single entry is returned
C11_Witness ==
    /\ opc = "done"
    /\ Len(page.body) = 4
    /\ \A i \in 1..3 : Candidate(page, i)
    /\ Len(Survivors(page)) = 1
    /\ outcome.kind = "return"
    /\ Len(outcome.value) = 1

\* Candidates with a body, none of which has a citation link: ParseError
C11_WitnessNoSurvivor ==
    /\ opc = "done"
    /\ \E i \in 1..Len(page.body) : Candidate(page, i)
    /\ \E i \in 1..Len(page.body) : page.body[i].el = "content-body"
    /\ outcome = Raised(ParseError("readings"))

RECURSIVE IsSubsequence(_, _)
\* s is t with some of its members left out, the order kept
IsSubsequence(s, t) ==
    IF s = <<>> THEN TRUE
    ELSE IF t = <<>> THEN FALSE
    ELSE IF Head(s) = Head(t) THEN IsSubsequence(Tail(s), Tail(t))
    ELSE IsSubsequence(s, Tail(t))

\* C12: every paragraph of the text of every entry returned has more than 20
\* characters and holds no navigation phrase, whatever its case; the text is
\* made of paragraphs of one content body in their document order; the
\* paragraph "View reflection" is in no entry.
C12_ParagraphFiltering ==
    (opc = "done" /\ outcome.kind = "return") =>
        \A k \in 1..Len(outcome.value) :
            LET text == outcome.value[k].text
            IN  /\ \A j \in 1..Len(text) :
                      /\ StrLen(text[j]) > 20
                      /\ \A a \in 1..Len(text[j]) : \A ph \in NavigationPhrases :
                            <<Lower(text[j][a]), ph>> \notin Occurs
                      /\ text[j] # <<"View reflection">>
                /\ \E i \in 1..Len(page.body) :
                      /\ page.body[i].el = "content-body"
                      /\ IsSubsequence(text, page.body[i].paragraphs)

\* A body whose first and last paragraphs survive and whose middle one, a
\* navigation phrase of more than 20 characters in capitals, does not
C12_Witness ==
    /\ opc = "done"
    /\ outcome.kind = "return"
    /\ Len(page.body) = 2
    /\ page.body[2].el = "content-body"
    /\ page.body[2].paragraphs = << <<"In the beginning was the Word.">>,
                                     <<"LISTEN PODCAST of the day">>,
                                     <<"And the Word was made flesh.">> >>
    /\ outcome.value[1].text = << <<"In the beginning was the Word.">>,
                                  <<"And the Word was made flesh.">> >>

\* A paragraph of exactly 20 characters is dropped, one of 21 is kept
C12_WitnessLength ==
    /\ opc = "done"
    /\ outcome.kind = "return"
    /\ Len(page.body) = 2
    /\ page.body[2].el = "content-body"
    /\ page.body[2].paragraphs = << <<"Thanks be to God now">>,
                                     <<"Thanks be to God now.">>,
                                     <<"View reflection">> >>
    /\ outcome.value[1].text = << <<"Thanks be to God now.">> >>

----------------------------------------------------------------------------
(* Properties of the handling of defective reading candidates *)

\* A string with a character that is not whitespace
NonBlank(s) == \E i \in 1..Len(s) : s[i] \notin {"", " ", "\n", "\t"}

\* The candidate has all three parts: it survives and its citation has text
FullyExtractable(d, i) ==
    /\ Survivor(d, i)
    /\ NonBlank(The(The(d.body[i].address).link))

\* The candidate lacks its citation (no link, or a link without text) or its
\* body (no content body, or none of its paragraphs survives)
Defective(d, i) == Candidate(d, i) /\ ~FullyExtractable(d, i)

\* The paths readings[i].<field> that DailyReading.validate can name
ReadingPaths ==
    { "readings[" \o ToString(i) \o "]." \o f :
         i \in 0..(MaxElements + 1), f \in {"title", "citation", "text"} }

\* C13: when a document has a defective candidate and another candidate that
\* is fully extractable, get_readings_for_date raises neither a ParseError
\* for the readings nor a ValidationError that names a reading.
C13_PerReadingDefectsNeverEscalate ==
    (/\ opc = "raised"
     /\ \E i \in 1..Len(page.body) : Defective(page, i)
     /\ \E i \in 1..Len(page.body) : FullyExtractable(page, i)) =>
        /\ outcome # Raised(ParseError("readings"))
        /\ outcome.exc.type = "ValidationError" => outcome.exc.field \notin ReadingPaths

\* The title names an Alleluia
IsAlleluia(d, i) == ContainsAny(HeadingOf(d.body[i]).text, {"alleluia"})

\* A candidate with body text and no citation
WithoutCitation(d, i) ==
    /\ Candidate(d, i)
    /\ ~HasCitationLink(d, i)
    /\ SurvivingParagraphs(d, i) # <<>>

\* The entries a call produced: none when it raised
Produced == IF outcome.kind = "return" THEN outcome.value ELSE <<>>

\* C14: a candidate with body text and no citation is produced, without a
\* citation, when its title is an Alleluia, and is not produced otherwise:
\* the entries are those of the candidates with a citation link and those of
\* the citation-less Alleluia candidates.
C14_AlleluiaException ==
    opc = "done" =>
        /\ \A i \in 1..Len(page.body) :
              (WithoutCitation(page, i) /\ IsAlleluia(page, i)) =>
                  \E k \in 1..Len(Produced) :
                      /\ Produced[k].title = HeadingOf(page.body[i]).text
                      /\ Produced[k].citation = <<>>
                      /\ Produced[k].text = SurvivingParagraphs(page, i)
        /\ Len(Produced) =
              Cardinality({i \in 1..Len(page.body) :
                              \/ Survivor(page, i)
                              \/ WithoutCitation(page, i) /\ IsAlleluia(page, i)})

----------------------------------------------------------------------------
(* Properties of the validation of the data models *)

\* A list of paragraphs of which one at least is not blank
HasText(x) == \E j \in 1..Len(x) : NonBlank(x[j])

\* The first field of an entry that fails, "" when none does
FirstFailingField(e) ==
    IF ~NonBlank(e.title) THEN "title"
    ELSE IF ~NonBlank(e.citation) THEN "citation"
    ELSE IF ~HasText(e.text) THEN "text"
    ELSE ""

\* C15: ReadingEntry.validate returns exactly when the title is not blank,
\* the citation is not blank and the text has a paragraph that is not blank;
\* otherwise it raises a ValidationError whose field is the first that fails
\* among title, citation, text and whose value is that field's value; an
\* empty value and a value of whitespace are rejected alike.
C15_ReadingEntryValidate ==
    (opc = "done" /\ self # None) =>
        LET e == The(self)
            f == FirstFailingField(e)
        IN  /\ outcome.kind \in {"return", "raise"}
            /\ outcome.kind = "return" <=>
                  (NonBlank(e.title) /\ NonBlank(e.citation) /\ HasText(e.text))
            /\ f # "" => outcome = Raised(ValidationError(f, e[f]))

\* A title of whitespace with an empty citation and an empty text: title
C15_Witness ==
    /\ opc = "done"
    /\ self # None
    /\ The(self).title = <<" ", "\n">>
    /\ The(self).citation = <<>>
    /\ The(self).text = <<>>
    /\ outcome = Raised(ValidationError("title", <<" ", "\n">>))

\* A text whose paragraphs are all blank but one
C15_WitnessAccepted ==
    /\ opc = "done"
    /\ self # None
    /\ Len(The(self).text) = 3
    /\ The(self).text[1] = <<>>
    /\ The(self).text[2] = <<" ", "\n">>
    /\ The(self).title = <<" ", "Luke 21:5-11", " ">>
    /\ outcome = Returned(None)

\* The indices of the readings of an aggregate that are invalid
InvalidReadings(dr) ==
    {i \in 1..Len(dr.readings) : FirstFailingField(dr.readings[i]) # ""}

\* The error that names the first invalid reading of an aggregate
FirstInvalidReadingError(dr) ==
    LET i == First(InvalidReadings(dr))
        f == FirstFailingField(dr.readings[i])
    IN  ValidationError("readings[" \o ToString(i - 1) \o "]." \o f, dr.readings[i][f])

\* The checks that DailyReading.validate makes before it looks at a reading
ReachesReadings(dr) ==
    /\ dr.date.year > 0
    /\ NonBlank(dr.date_display)
    /\ NonBlank(dr.liturgical_day)

\* C16, as stated: whenever a contained reading is invalid, the error raised
\* names the smallest index of an invalid reading with that reading's first
\* failing field and carries that field's value.
C16_FailFastOnReadings ==
    (opc = "done" /\ self # None /\ InvalidReadings(The(self)) # {}) =>
        outcome = Raised(FirstInvalidReadingError(The(self)))

\* C16, amended: when the date is a date and date_display and liturgical_day
\* are not blank, and a contained reading is invalid, the error raised names
\* the smallest index of an invalid reading with that reading's first failing
\* field and carries that field's value, whatever the readings after it and
\* the source_url are; when one of the three fields before the readings is
\* invalid the error names that field and no reading.
C16_FailFastOnReadingsReached ==
    (opc = "done" /\ self # None /\ InvalidReadings(The(self)) # {}) =>
        /\ outcome.kind = "raise"
        /\ ReachesReadings(The(self)) =>
              outcome = Raised(FirstInvalidReadingError(The(self)))
        /\ ~ReachesReadings(The(self)) =>
              outcome.exc.field \in {"date", "date_display", "liturgical_day"}

\* A valid reading, then one with a blank citation, then one with an empty
\* title, and a blank source_url: readings[1].citation
C16_Witness ==
    /\ opc = "done"
    /\ self # None
    /\ ReachesReadings(The(self))
    /\ InvalidReadings(The(self)) = {2, 3}
    /\ FirstFailingField(The(self).readings[3]) = "title"
    /\ ~NonBlank(The(self).source_url)
    /\ outcome = Raised(ValidationError("readings[1].citation", <<" ">>))

\* C17: an aggregate on which validate() succeeds has at least one reading,
\* every one of its readings is valid on its own, and its date_display,
\* liturgical_day and source_url are not blank.
C17_ValidAggregate ==
    (opc = "done" /\ self # None /\ outcome.kind = "return") =>
        /\ The(self).readings # <<>>
        /\ Len(The(self).readings) >= 1
        /\ InvalidReadings(The(self)) = {}
        /\ \A i \in 1..Len(The(self).readings) :
              ValidateReadingEntry(The(self).readings[i]) = None
        /\ NonBlank(The(self).date_display)
        /\ NonBlank(The(self).liturgical_day)
        /\ NonBlank(The(self).source_url)

\* validate() succeeded on an aggregate of three readings
C17_Witness ==
    /\ opc = "done"
    /\ self # None
    /\ outcome = Returned(None)
    /\ Len(The(self).readings) = 3
    /\ The(self).readings[1] # The(self).readings[2]

\* The converse fails: every reading is valid and validate() raises
C17_WitnessConverseFails ==
    /\ opc = "done"
    /\ self # None
    /\ Len(The(self).readings) >= 1
    /\ InvalidReadings(The(self)) = {}
    /\ ReachesReadings(The(self))
    /\ outcome = Raised(ValidationError("source_url", <<>>))

----------------------------------------------------------------------------
(* Properties of what get_readings_for_date returns *)

\* An aggregate that is valid: what DailyReading.validate requires
ValidAggregate(dr) ==
    /\ ReachesReadings(dr)
    /\ dr.readings # <<>>
    /\ InvalidReadings(dr) = {}
    /\ NonBlank(dr.source_url)

\* The URLs of the GETs issued so far
FetchedUrls == {trace[i].arg : i \in {j \in 1..Len(trace) : trace[j].ev = "get"}}

\* C18: a DailyReading returned by get_readings_for_date(d) has date d, the
\* URL built for d, which is the URL of every GET of the call, as source_url,
\* at least one reading, and is valid; the call returns nothing else, and an
\* aggregate that is not valid is not returned.
C18_ReturnedAggregate ==
    /\ opc = "returned" =>
          /\ outcome.kind = "return"
          /\ outcome.value.date = target_date
          /\ outcome.value.source_url = <<BuildUrl(target_date)>>
          /\ FetchedUrls = {BuildUrl(target_date)}
          /\ outcome.value.source_url = <<url>>
          /\ Len(outcome.value.readings) >= 1
          /\ ValidAggregate(outcome.value)
    /\ outcome.kind = "return" => opc = "returned"

\* A leap day, served at the second GET, with two readings
C18_Witness ==
    /\ opc = "returned"
    /\ target_date = [year |-> 2024, month |-> 2, day |-> 29]
    /\ outcome.kind = "return"
    /\ outcome.value.source_url = <<"https://bible.usccb.org/bible/readings/022924.cfm">>
    /\ Len(outcome.value.readings) = 2
    /\ Gets(trace) = 2

----------------------------------------------------------------------------
(* Properties of the URL builder *)

DigitChars == <<"0", "1", "2", "3", "4", "5", "6", "7", "8", "9">>

\* The two decimal digits of a number below 100
TwoDigits(n) == DigitChars[(n \div 10) + 1] \o DigitChars[(n % 10) + 1]

\* C19: for every calendar date the URL built is the base URL, "/", the two
\* digits of the month, of the day and of the year's last two digits, and
\* ".cfm"; 2025-11-22, 2024-02-29 and 2025-01-01 give 112225.cfm, 022924.cfm
\* and 010125.cfm under the default base URL; the builder always returns.
C19_UrlBuilder ==
    opc = "done" =>
        /\ outcome = Returned(url)
        /\ url = The(self).base_url \o "/" \o TwoDigits(target_date.month)
                    \o TwoDigits(target_date.day) \o TwoDigits(target_date.year % 100)
                    \o ".cfm"
        /\ Len(url) = Len(The(self).base_url) + 11
        /\ (target_date = [year |-> 2025, month |-> 11, day |-> 22]
              /\ The(self).base_url = "https://bible.usccb.org/bible/readings") =>
                 url = "https://bible.usccb.org/bible/readings/112225.cfm"
        /\ (target_date = [year |-> 2024, month |-> 2, day |-> 29]
              /\ The(self).base_url = "https://bible.usccb.org/bible/readings") =>
                 url = "https://bible.usccb.org/bible/readings/022924.cfm"
        /\ (target_date = [year |-> 2025, month |-> 1, day |-> 1]
              /\ The(self).base_url = "https://bible.usccb.org/bible/readings") =>
                 url = "https://bible.usccb.org/bible/readings/010125.cfm"

\* The first day of a year: month and day are padded
C19_Witness ==
    /\ opc = "done"
    /\ target_date = [year |-> 2025, month |-> 1, day |-> 1]
    /\ url = "https://bible.usccb.org/bible/readings/010125.cfm"

\* A leap day of the year 2000 under another base URL: the year is padded
C19_WitnessCentury ==
    /\ opc = "done"
    /\ target_date = [year |-> 2000, month |-> 2, day |-> 29]
    /\ url = "http://localhost:8000/readings/022900.cfm"

----------------------------------------------------------------------------
(* Properties of repeated calls *)

\* The call was served the document: it did not end in a NetworkError
Served(o) == ~(o.kind = "raise" /\ o.exc.type = "NetworkError")

\* C20: when two calls with the same date are both served the unchanged
\* document, however many GETs each needed, the second ends as the first:
\* two DailyReading values returned are equal field by field, and what the
\* first call left behind changes nothing in the second.
C20_OrchestratorIdempotence ==
    (previous # None /\ opc \in {"returned", "raised"}) =>
        LET first == The(previous)
        IN  /\ (Served(first) /\ Served(outcome)) => outcome = first
            /\ (first.kind = "return" /\ outcome.kind = "return") =>
                  /\ outcome.value.date = first.value.date
                  /\ outcome.value.date_display = first.value.date_display
                  /\ outcome.value.liturgical_day = first.value.liturgical_day
                  /\ outcome.value.readings = first.value.readings
                  /\ outcome.value.source_url = first.value.source_url

\* The first call is served at its first GET, the second at its third
C20_Witness ==
    /\ previous # None
    /\ opc = "returned"
    /\ The(previous).kind = "return"
    /\ outcome.kind = "return"
    /\ Len(outcome.value.readings) = 2
    /\ Gets(trace) = 4
    /\ script[1].kind = "response" /\ script[1].status = 200

----------------------------------------------------------------------------
(* Properties of the multiple-Mass detector *)

\* The anchor's target is <MMDDYY>-(Vigil|Night|Dawn|Day).cfm, in any case
IsMassLink(a, d) ==
    /\ a.stem = TwoDigits(d.month) \o TwoDigits(d.day) \o TwoDigits(d.year % 100)
    /\ a.suffix \in {"Vigil", "Night", "Dawn", "Day", "vigil", "night", "dawn", "day",
                     "VIGIL", "NIGHT", "DAWN", "DAY"}

\* The document without its anchors
WithoutAnchors(d) == [d EXCEPT !.anchors = <<>>]

\* How the call ends on a document that it was served
OutcomeOn(doc, d) ==
    LET day == ExtractLiturgicalDay(doc)
        rs == ExtractReadings(doc)
    IN  IF day.kind = "raise" THEN day
        ELSE IF rs.kind = "raise" THEN rs
        ELSE LET dr == DailyReading(d, DateDisplay(d), day.value, rs.value, <<BuildUrl(d)>>)
             IN  IF ValidateDailyReading(dr) # None
                 THEN Raised(The(ValidateDailyReading(dr)))
                 ELSE Returned(dr)

\* C21: the detector gives a warning exactly when an anchor targets one of
\* the Masses of the date, and the warning lists the texts of those anchors;
\* it never raises, so the liturgical-day step follows it; the call ends as it
\* would on the same document without its anchors, warning or no warning.
C21_MultipleMassAdvisory ==
    /\ \A i \in 1..Len(trace) :
          trace[i].ev = "check_for_multiple_masses" =>
              LET links == SelectSeq(page.anchors, LAMBDA a : IsMassLink(a, target_date))
              IN  /\ trace[i].arg # None <=> links # <<>>
                  /\ trace[i].arg # None =>
                        The(trace[i].arg) = [k \in 1..Len(links) |-> links[k].text]
                  /\ i = Len(trace) => opc = "day"
    /\ CountOf(trace, "check_for_multiple_masses") <= 1
    /\ (opc \in {"returned", "raised"} /\ soup # None) =>
          /\ CountOf(trace, "check_for_multiple_masses") = 1
          /\ outcome = OutcomeOn(WithoutAnchors(page), target_date)

\* Christmas Day: a warning that names two Masses, and a DailyReading
C21_Witness ==
    /\ opc = "returned"
    /\ target_date = [year |-> 2025, month |-> 12, day |-> 25]
    /\ \E i \in 1..Len(trace) :
          /\ trace[i].ev = "check_for_multiple_masses"
          /\ trace[i].arg = Some(<< <<"Vigil Mass">>, <<"Mass at Dawn">> >>)
    /\ outcome.kind = "return"

\* A warning, then the ParseError of a page without a liturgical day
C21_WitnessWarningThenError ==
    /\ opc = "raised"
    /\ outcome = Raised(ParseError("liturgical_day"))
    /\ \E i \in 1..Len(trace) :
          /\ trace[i].ev = "check_for_multiple_masses"
          /\ trace[i].arg = Some(<< <<"Mass during the Day">> >>)

\* Links to the Masses of another date: no warning
C21_WitnessOtherDate ==
    /\ opc = "returned"
    /\ target_date = [year |-> 2025, month |-> 11, day |-> 22]
    /\ Len(page.anchors) = 2
    /\ \E i \in 1..Len(trace) :
          trace[i].ev = "check_for_multiple_masses" /\ trace[i].arg = None

----------------------------------------------------------------------------
(* Further properties of the retry wrapper *)

\* The decorator of the docstring example around a function that keeps failing
DocstringExample == max_attempts = 3 /\ backoff_factor = 2 /\ AlwaysFails

----------------------------------------------------------------------------
(* Further properties of the liturgical-day extractor *)

\* The texts of the h1-h3 headings with a class hint, more than 5 characters
\* and a text other than "Daily Readings"
QualifyingClassHintTexts(d) ==
    { Headings(d)[i].text : i \in { j \in 1..Len(Headings(d)) :
          /\ Headings(d)[j].tag \in {"h1", "h2", "h3"}
          /\ ContainsAny(<<Headings(d)[j].class>>, ClassHints)
          /\ StrLen(Headings(d)[j].text) > 5
          /\ Headings(d)[j].text # <<"Daily Readings">> } }

\* C23: when the title strategy fails and some class-hinted heading
\* qualifies, strategy 2 succeeds and the extractor returns the text of a
\* qualifying class-hinted heading, whatever class-hinted headings of the same
\* tag come before it.
C23_ClassHintedHeading ==
    (/\ opc = "done"
     /\ TitleStrategy(page) = None
     /\ QualifyingClassHintTexts(page) # {}) =>
        /\ ClassHintStrategy(page) # None
        /\ outcome.kind = "return"
        /\ outcome.value \in QualifyingClassHintTexts(page)

\* The log events of the trace, in order
LogEvents(t) == SelectSeq(t, LAMBDA e : e.ev \in {"warning", "info", "error"})

\* The position of the n-th invocation in the trace
CallAt(t, n) == CHOOSE i \in 1..Len(t) : t[i] = Event("call", n)

\* The n-th invocation failed, with whatever exception
Failed(n) == script[n].kind = "raise"

\* C24, as stated: a warning for each failed attempt that is not the last
\* allowed one, before the sleep that follows it; an info event exactly once
\* exactly when the call succeeds on an attempt n > 1; an error event exactly
\* once exactly when all attempts failed; no event for a call that succeeds
\* on its first attempt.
C24_RetryObservability ==
    /\ \A n \in 1..Calls(trace) :
          (Failed(n) /\ n < max_attempts) =>
              /\ CallAt(trace, n) < Len(trace)
              /\ trace[CallAt(trace, n) + 1] = Event("warning", n)
              /\ \A j \in 1..Len(trace) :
                    trace[j].ev = "sleep" /\ j > CallAt(trace, n) => j > CallAt(trace, n) + 1
    /\ CountOf(trace, "info") <= 1
    /\ CountOf(trace, "error") <= 1
    /\ Terminal =>
          /\ CountOf(trace, "info") = 1 <=> (wpc = "returned" /\ Calls(trace) > 1)
          /\ CountOf(trace, "error") = 1 <=>
                (/\ wpc = "raised"
                 /\ Calls(trace) >= 1
                 /\ \A n \in 1..Calls(trace) : Failed(n))
          /\ (wpc = "returned" /\ Calls(trace) = 1) => LogEvents(trace) = <<>>

\* C24, amended: a warning for each attempt that fails with an exception of
\* the configured set and is not the last allowed one, right after the
\* attempt and before the sleep that follows it; an info event, naming the
\* attempt, exactly once exactly when the call succeeds on an attempt n > 1;
\* an error event exactly once exactly when max_attempts >= 1 and all
\* max_attempts attempts failed with exceptions of the configured set; an
\* attempt that fails with another exception ends the call with no event of
\* its own; no event for a call that succeeds on its first attempt.
C24_RetryObservabilityOfRetried ==
    /\ \A n \in 1..Calls(trace) :
          /\ (Retryable(n) /\ n < max_attempts) =>
                /\ CallAt(trace, n) < Len(trace)
                /\ trace[CallAt(trace, n) + 1] = Event("warning", n)
                /\ CallAt(trace, n) + 1 < Len(trace) =>
                      trace[CallAt(trace, n) + 2].ev = "sleep"
          /\ NotRetryable(n) => trace[Len(trace)] = Event("call", n)
    /\ CountOf(trace, "warning") =
          Cardinality({n \in 1..Calls(trace) : Retryable(n) /\ n < max_attempts})
    /\ CountOf(trace, "info") <= 1
    /\ CountOf(trace, "error") <= 1
    /\ Terminal =>
          /\ CountOf(trace, "info") = 1 <=> (wpc = "returned" /\ Calls(trace) > 1)
          /\ wpc = "returned" /\ Calls(trace) > 1 =>
                trace[Len(trace)] = Event("info", Calls(trace))
          /\ CountOf(trace, "error") = 1 <=>
                (/\ max_attempts >= 1
                 /\ Calls(trace) = max_attempts
                 /\ \A n \in 1..max_attempts : Retryable(n))
          /\ (wpc = "returned" /\ Calls(trace) = 1) => LogEvents(trace) = <<>>

\* Two retried failures and a success on the third attempt
C24_Witness ==
    /\ wpc = "returned"
    /\ max_attempts = 3
    /\ LogEvents(trace) = <<Event("warning", 1), Event("warning", 2), Event("info", 3)>>

\* Three retried failures: two warnings and the error
C24_WitnessExhausted ==
    /\ wpc = "raised"
    /\ max_attempts = 3
    /\ LogEvents(trace) = <<Event("warning", 1), Event("warning", 2), Event("error", 3)>>

\* The greater of two integers
Max(a, b) == IF a >= b THEN a ELSE b

\* C29: for every max_attempts, negative and zero included, and every
\* behaviour of the operation, the wrapped call ends, after at most
\* max(max_attempts, 0) invocations and max(max_attempts - 1, 0) sleeps; with
\* max_attempts >= 1 it has invoked the operation at least once; with
\* max_attempts <= 0 it never invokes the operation and ends by raising.
C29_BoundedAttempts ==
    /\ [](/\ Calls(trace) <= Max(max_attempts, 0)
          /\ Len(Sleeps(trace)) <= Max(max_attempts - 1, 0)
          /\ (Terminal /\ max_attempts >= 1) => Calls(trace) >= 1
          /\ max_attempts <= 0 =>
                /\ trace = <<>>
                /\ wpc # "returned"
                /\ Terminal => result.kind = "raise")
    /\ <>Terminal

\* max_attempts = 0: no invocation, and the call raises
C29_Witness ==
    /\ max_attempts = 0
    /\ wpc = "raised"
    /\ trace = <<>>
    /\ result.kind = "raise"
    /\ script[1].kind = "return"

\* max_attempts = 1: one invocation, no sleep
C29_WitnessSingleAttempt ==
    /\ max_attempts = 1
    /\ wpc = "raised"
    /\ Calls(trace) = 1
    /\ Sleeps(trace) = <<>>

-----------------------------------------------------------------------------
(* Properties of the cost tracker *)

\* The cost of a call with token counts u, in millionths of a dollar
CostOf(u) == 3 * u[1] + 15 * u[2]

\* The record of a call
APICall(operation, u) ==
    [operation |-> operation, input_tokens |-> u[1], output_tokens |-> u[2],
     cost_usd |-> CostOf(u)]

\* C25: record_call appends the call if and only if total_cost + cost(call)
\* <= max_cost_usd (a call that exactly reaches the limit is accepted), and
\* otherwise raises RuntimeError and leaves the recorded calls and the totals
\* as they were; so after any sequence of record_call operations total_cost
\* <= max_cost_usd and remaining_budget >= 0.
C25_CostBudgetEnforcement ==
    /\ TotalCost(cost_tracker.calls) <= cost_tracker.max_cost_usd
    /\ RemainingBudget(cost_tracker) >= 0
    /\ \A operation \in {"synopsis", "reflection"} :
          \A u \in {v \in Usages : v[1] >= 0 /\ v[2] >= 0} :
             LET r == RecordCall(cost_tracker, operation, u[1], u[2])
                 fits == TotalCost(cost_tracker.calls) + CostOf(u)
                            <= cost_tracker.max_cost_usd
             IN  /\ fits =>
                       /\ r.result.kind = "return"
                       /\ r.tracker.calls =
                             Append(cost_tracker.calls, APICall(operation, u))
                       /\ r.tracker.max_cost_usd = cost_tracker.max_cost_usd
                 /\ ~fits =>
                       /\ r.result = Raised([type |-> "RuntimeError"])
                       /\ r.tracker = cost_tracker

\* Two accepted calls have reached the limit exactly, and a third was refused
C25_Witness ==
    /\ cpc = "tracker"
    /\ Len(cost_tracker.calls) = 2
    /\ TotalCost(cost_tracker.calls) = cost_tracker.max_cost_usd
    /\ RemainingBudget(cost_tracker) = 0
    /\ ai_result = Raised([type |-> "RuntimeError"])

-----------------------------------------------------------------------------
(* Properties of the AI client *)

\* The tokens of the answer in hand, as a pair
ResponseUsage == <<The(response).input_tokens, The(response).output_tokens>>

\* A client call has issued its request and not yet recorded its cost
Requested == cpc \in {"synopsis_requested", "reflection_requested"}

\* Recording the answer in hand would exceed the limit
OverBudget ==
    TotalCost(cost_tracker.calls) + CostOf(ResponseUsage) > cost_tracker.max_cost_usd

\* The cost of the requests issued, recorded or not
RECURSIVE IssuedCost(_)
IssuedCost(reqs) ==
    IF reqs = <<>> THEN 0
    ELSE IssuedCost(Tail(reqs)) + CostOf(<<Head(reqs).input_tokens, Head(reqs).output_tokens>>)

\* The last request issued
LastRequest == requests[Len(requests)]

\* A response that json.loads reads as an object holding a reflection text,
\* at least two questions ending in "?", and one or two citations with an
\* integer paragraph number in 1..2865 and an excerpt
ValidReflection(text) ==
    /\ text.json = "object"
    /\ {"reflection_text", "pondering_questions", "ccc_citations"} \subseteq DOMAIN text.data
    /\ text.data["reflection_text"] # <<>>
    /\ Len(text.data["pondering_questions"]) >= 2
    /\ \A i \in 1..Len(text.data["pondering_questions"]) :
          LET question == text.data["pondering_questions"][i]
          IN  question # <<>> /\ question[Len(question)] = "?"
    /\ Len(text.data["ccc_citations"]) \in 1..2
    /\ \A i \in 1..Len(text.data["ccc_citations"]) :
          LET c == text.data["ccc_citations"][i]
          IN  /\ {"paragraph_number", "excerpt_text"} \subseteq DOMAIN c
              /\ c["paragraph_number"].t = "int"
              /\ c["paragraph_number"].v \in 1..2865
              /\ c["excerpt_text"] # <<>>

\* C26: a call of generate_reflection issues at most max_retries API
\* requests; an invalid response is retried, and at the max_retries-th
\* attempt ends the call with ValueError; an attempt whose cost would exceed
\* the limit ends the call with RuntimeError at once, with no further request.
C26_ReflectionRetries ==
    /\ [](cpc = "reflection_requested" =>
            /\ reflection_attempt + 1 <= max_retries
            /\ Len(requests) >= reflection_attempt + 1
            /\ \A k \in 0..reflection_attempt :
                  LET req == requests[Len(requests) - reflection_attempt + k]
                  IN  req.operation = "reflection" /\ req.attempt = k)
    /\ [][cpc = "reflection_requested" =>
            /\ OverBudget =>
                  /\ ai_result' = Raised([type |-> "RuntimeError"])
                  /\ cpc' = "none"
                  /\ requests' = requests
            /\ (~OverBudget /\ ~ValidReflection(The(response).text)) =>
                  IF reflection_attempt + 1 < max_retries
                  THEN /\ cpc' = "reflection_loop"
                       /\ reflection_attempt' = reflection_attempt + 1
                       /\ ai_result' = Pending
                  ELSE /\ cpc' = "none"
                       /\ ai_result' = Raised([type |-> "ValueError"])]_vars

\* C28: the API request is issued before its cost is checked: the requests
\* issued are never fewer than the calls recorded; while the check is pending
\* the request is already in the log and not in the tracker; and when
\* record_call has raised RuntimeError the refused request has been issued
\* and its cost is not part of total_cost, which stays within the limit.
C28_RequestBeforeCheck ==
    /\ Len(requests) >= Len(cost_tracker.calls)
    /\ TotalCost(cost_tracker.calls) <= cost_tracker.max_cost_usd
    /\ IssuedCost(requests) >= TotalCost(cost_tracker.calls)
    /\ Requested =>
          /\ requests # <<>>
          /\ <<LastRequest.input_tokens, LastRequest.output_tokens>> = ResponseUsage
          /\ Len(requests) > Len(cost_tracker.calls)
    /\ ai_result = Raised([type |-> "RuntimeError"]) =>
          /\ requests # <<>>
          /\ Len(requests) > Len(cost_tracker.calls)
          /\ TotalCost(cost_tracker.calls)
                + CostOf(<<LastRequest.input_tokens, LastRequest.output_tokens>>)
                > cost_tracker.max_cost_usd
          /\ IssuedCost(requests) > TotalCost(cost_tracker.calls)

\* A reflection request was refused by the tracker: what the requests issued
\* have cost exceeds the limit, the tracked total does not
C28_Witness ==
    /\ ai_result = Raised([type |-> "RuntimeError"])
    /\ LastRequest.operation = "reflection"
    /\ IssuedCost(requests) > cost_tracker.max_cost_usd
    /\ TotalCost(cost_tracker.calls) <= cost_tracker.max_cost_usd

\* The same in generate_synopsis
C28_WitnessSynopsis ==
    /\ ai_result = Raised([type |-> "RuntimeError"])
    /\ LastRequest.operation = "synopsis"
    /\ IssuedCost(requests) > cost_tracker.max_cost_usd

-----------------------------------------------------------------------------
(* Properties of the generators *)

\* The file of the message of a date in a directory
MessageFile(k) == <<k[1], k[2] \o "-daily-message.md">>

\* The file of the readings page of a date in a directory
ReadingsFile(k) ==
    <<k[1], ToString(k[2].year) \o "-"
               \o (IF k[2].month < 10 THEN "0" ELSE "") \o ToString(k[2].month) \o "-"
               \o (IF k[2].day < 10 THEN "0" ELSE "") \o ToString(k[2].day) \o ".html">>

\* The files of a directory
FilesIn(dir) == {f \in DOMAIN files : f[1] = dir}

\* C27: after any sequence of generate_message and generate_readings_page
\* calls each directory holds exactly one file per distinct date generated
\* into it, holding the content of the latest generation for that date; and a
\* call for date X creates or replaces X's file only: every other file stays,
\* with its content.
C27_AccumulationAndOverwrite ==
    /\ [](/\ DOMAIN files = {MessageFile(k) : k \in DOMAIN latest.message}
                               \cup {ReadingsFile(k) : k \in DOMAIN latest.readings}
          /\ \A k \in DOMAIN latest.message : files[MessageFile(k)] = latest.message[k]
          /\ \A k \in DOMAIN latest.readings : files[ReadingsFile(k)] = latest.readings[k]
          /\ \A dir \in {f[1] : f \in DOMAIN files} :
                Cardinality(FilesIn(dir)) =
                   Cardinality({k[2] : k \in {j \in DOMAIN latest.message : j[1] = dir}})
                   + Cardinality({k[2] : k \in {j \in DOMAIN latest.readings : j[1] = dir}}))
    /\ [][/\ \A f \in DOMAIN files :
                /\ f \in DOMAIN files'
                /\ files'[f] # files[f] => filepath' = Returned(f)
          /\ \A f \in DOMAIN files' \ DOMAIN files : filepath' = Returned(f)]_vars

\* Two dates in each directory, the readings page of the 22nd regenerated
\* with another liturgical day after the page of the 23rd was written
C27_Witness ==
    /\ Cardinality(FilesIn("_site/messages")) = 2
    /\ Cardinality(FilesIn("_site/readings")) = 2
    /\ filepath = Returned(<<"_site/readings", "2025-11-22.html">>)
    /\ files[<<"_site/readings", "2025-11-22.html">>].liturgical_day
          = <<"Saints Peter ", "&amp;", " Paul">>
    /\ files[<<"_site/readings", "2025-11-23.html">>].liturgical_day
          = <<"Friday of Week 34">>

-----------------------------------------------------------------------------
(* What validation can still find after extraction *)

\* The field path of the citation of the i-th entry (counted from 0)
CitationPath(i) == "readings[" \o ToString(i) \o "].citation"

\* C30: every entry returned by _extract_readings has a non-blank title
\* holding a reading keyword and a non-empty list of non-blank paragraphs; the
\* liturgical day, date_display and source_url of the aggregate are non-blank;
\* so a ValidationError of get_readings_for_date can only name the citation
\* of an entry, one whose citation link has no text.
C30_OnlyCitationCanFail ==
    /\ readings # None =>
          /\ The(readings) # <<>>
          /\ \A i \in 1..Len(The(readings)) :
                LET entry == The(readings)[i]
                IN  /\ NonBlank(entry.title)
                    /\ \E k \in {"reading", "gospel", "psalm", "alleluia"} :
                          \E j \in 1..Len(entry.title) : <<Lower(entry.title[j]), k>> \in Occurs
                    /\ entry.text # <<>>
                    /\ \A j \in 1..Len(entry.text) : NonBlank(entry.text[j])
    /\ liturgical_day # None => NonBlank(The(liturgical_day))
    /\ opc \in {"validate", "returned"} =>
          /\ NonBlank(DateDisplay(target_date))
          /\ NonBlank(<<url>>)
    /\ (outcome.kind = "raise" /\ outcome.exc.type = "ValidationError") =>
          /\ readings # None
          /\ \E i \in 1..Len(The(readings)) :
                /\ outcome.exc.field = CitationPath(i - 1)
                /\ ~NonBlank(The(readings)[i].citation)
                /\ \A j \in 1..(i - 1) : NonBlank(The(readings)[j].citation)

\* The second entry extracted has a citation link without text: validation
\* fails on it, and on nothing else
C30_Witness ==
    /\ opc = "raised"
    /\ outcome.kind = "raise"
    /\ outcome.exc.type = "ValidationError"
    /\ outcome.exc.field = CitationPath(1)
    /\ Len(The(readings)) >= 2

\* An aggregate is returned: nothing was blank
C30_WitnessValid ==
    /\ opc = "returned"
    /\ Len(outcome.value.readings) >= 2
    /\ \A i \in 1..Len(outcome.value.readings) : NonBlank(outcome.value.readings[i].citation)

====
